---- MODULE Spec2Model ----
(***************************************************************************)
(* Model of the dependency patch engine of repodata-hotfixes (main.py):    *)
(* replace_dep, the per-record patching done by patch_record, the driver   *)
(* loop _patch_repodata and do_hotfixes, which runs it on every platform;  *)
(* of rename_dependency (pro.py, r.py), of the package type helpers of     *)
(* r.py, and of the numpy 2 patch generators.                              *)
(*                                                                         *)
(* Python values are encoded as follows.  A str is a TLA+ string; a list   *)
(* is a sequence; a dict is a function whose DOMAIN is the set of keys     *)
(* that are present; None, where a str may also stand, is the string None. *)
(***************************************************************************)
EXTENDS Integers, Sequences, FiniteSets, TLC

VARIABLES
    rd_depends,   \* replace_dep: the list passed as depends (mutated in place)
    rd_old,       \* replace_dep: the old argument, a str or a list of str
    rd_new,       \* replace_dep: the new argument, a str or None
    rd_append,    \* replace_dep: the append keyword argument
    rd_pre,       \* value of depends when the latest call was entered
    rd_ret,       \* outcome of the latest call: '+', '-', '~', '=' or TypeError
    rd_calls,     \* number of calls made so far with these arguments
    subdir,       \* _patch_repodata: the platform whose index is patched
    index,        \* repodata["packages"]: filename -> record, patched in place
    original,     \* the index as it was loaded, before any record was patched
    todo,         \* filenames the loop over index.items() has not reached yet
    instructions, \* the patch instructions built by _patch_repodata
    last,         \* the filename of the latest iteration of the loop, None before the first
    pre_index,    \* the index when the latest iteration was entered
    pre_instructions, \* the instructions when the latest iteration was entered
    exc,          \* the exception that ended _patch_repodata, "" when none was raised
    os_name,      \* os.name of the host the script runs on: "posix" or "nt"
    pc,           \* "patching" inside the loop, "done" once instructions are
                  \* returned, "raised" once an exception has left the function,
                  \* "idle" while _patch_repodata is not running
    step,         \* do_hotfixes: 0 not running, 1 collecting repodata, 2 creating
                  \* patch instructions, 3 returned
    pos,          \* do_hotfixes: position in SUBDIRS of the current loop
    repodatas,    \* do_hotfixes: subdir -> index loaded so far
    remote,       \* subdir -> index the channel serves for the platform
    repodata_files,  \* subdir -> content of its repodata_from_packages.json on disk
    patch_files,  \* subdir -> content of its patch_instructions.json on disk
    writes,       \* the files do_hotfixes has written, in order
    rn_depends,   \* rename_dependency: record["depends"] (mutated in place)
    rn_old_name,  \* rename_dependency: the old_name argument
    rn_new_name,  \* rename_dependency: the new_name argument
    rn_entry,     \* rename_dependency: instructions["packages"][fn]
    rn_pre,       \* record["depends"] when rename_dependency was entered
    rn_calls,     \* number of calls of rename_dependency made so far
    pt_repodata,  \* r.py: the repodata dict given to _combine_package_types
    pt_instructions, \* r.py: the patch instructions of that repodata
    pt_loaded,    \* the repodata as it was loaded
    pt_pc,        \* "loaded", "combined", "separated" or "raised"
    np_fn,        \* numpy 2 generators: the filename of the record examined
    np_record,    \* numpy 2 generators: the record examined
    np_config,    \* numpy2_protect_dict as numpy2.py imports it
    np_patch,     \* NUMPY_2_CHANGES[subdir] of generate_numpy2_patch.py
    np_proposed,  \* proposed_changes[subdir] of numpy2.py
    np_ran        \* the generators that have examined the record

rdvars == <<rd_depends, rd_old, rd_new, rd_append, rd_pre, rd_ret, rd_calls>>

prvars == <<subdir, index, original, todo, instructions, last, pre_index,
            pre_instructions, exc, os_name, pc>>

hfvars == <<step, pos, repodatas, remote, repodata_files, patch_files, writes>>

rnvars == <<rn_depends, rn_old_name, rn_new_name, rn_entry, rn_pre, rn_calls>>

ptvars == <<pt_repodata, pt_instructions, pt_loaded, pt_pc>>

npvars == <<np_fn, np_record, np_config, np_patch, np_proposed, np_ran>>

\* the variables of the other scripts and of the driver do_hotfixes
othervars == <<step, pos, repodatas, remote, repodata_files, patch_files, writes,
               rn_depends, rn_old_name, rn_new_name, rn_entry, rn_pre, rn_calls,
               pt_repodata, pt_instructions, pt_loaded, pt_pc,
               np_fn, np_record, np_config, np_patch, np_proposed, np_ran>>

vars == <<rd_depends, rd_old, rd_new, rd_append, rd_pre, rd_ret, rd_calls,
          subdir, index, original, todo, instructions, last, pre_index,
          pre_instructions, exc, os_name, pc,
          step, pos, repodatas, remote, repodata_files, patch_files, writes,
          rn_depends, rn_old_name, rn_new_name, rn_entry, rn_pre, rn_calls,
          pt_repodata, pt_instructions, pt_loaded, pt_pc,
          np_fn, np_record, np_config, np_patch, np_proposed, np_ran>>

-----------------------------------------------------------------------------
(* Bounds of the model *)

MaxDepends == 3    \* longest depends list enumerated
MaxOld == 2        \* longest list given as old
MaxCalls == 2      \* calls of replace_dep made in a row on one list
MaxRecords == 3    \* largest number of records in an index
MaxCudnn == 2      \* most cudnn dependencies a record lists
MaxMkl == 2        \* most mkl dependencies an anaconda record lists
MaxRuntime == 2    \* most compiler runtime dependencies a record lists
MaxNumpyDeps == 2  \* longest depends list of a record the numpy 2 generators examine

-----------------------------------------------------------------------------
(* Python built-ins *)

\* Python's None among str values
None == "<None>"

\* the printable ASCII characters in code point order: 32..95 and 97..126
\* (96, the backquote, occurs in no string of the model)
AsciiLow == " !\"#$%&'()*+,-./0123456789:;<=>?@ABCDEFGHIJKLMNOPQRSTUVWXYZ[\\]^_"

AsciiHigh == "abcdefghijklmnopqrstuvwxyz{|}~"

\* ord(c) for a one-character str
Ord(c) ==
    IF \E i \in 1..Len(AsciiLow) : SubSeq(AsciiLow, i, i) = c
    THEN 31 + (CHOOSE i \in 1..Len(AsciiLow) : SubSeq(AsciiLow, i, i) = c)
    ELSE 96 + (CHOOSE i \in 1..Len(AsciiHigh) : SubSeq(AsciiHigh, i, i) = c)

\* a < b on str: lexicographic by code point, a proper prefix is smaller
RECURSIVE StrLt(_, _)
StrLt(a, b) ==
    IF b = "" THEN FALSE
    ELSE IF a = "" THEN TRUE
    ELSE IF Head(a) = Head(b) THEN StrLt(Tail(a), Tail(b))
    ELSE Ord(Head(a)) < Ord(Head(b))

\* item in lst
In(item, lst) == \E i \in 1..Len(lst) : lst[i] = item

\* lst.index(item), 1-based; only used when item is in lst
IndexOf(item, lst) == CHOOSE i \in 1..Len(lst) : lst[i] = item /\ \A j \in 1..(i-1) : lst[j] # item

\* the list without its element at position i (1-based)
RemoveAt(lst, i) == SubSeq(lst, 1, i-1) \o SubSeq(lst, i+1, Len(lst))

\* lst.remove(item): drops the first occurrence
ListRemove(lst, item) == RemoveAt(lst, IndexOf(item, lst))

\* lst.insert(i, x) with a 0-based index i in 0..len(lst)
ListInsert(lst, i, x) == SubSeq(lst, 1, i) \o <<x>> \o SubSeq(lst, i+1, Len(lst))

\* bisect.bisect_left(a, x): 0-based insertion point found by binary search
RECURSIVE bisect_loop(_, _, _, _)
bisect_loop(a, x, lo, hi) ==
    IF lo < hi
    THEN LET mid == (lo + hi) \div 2
         IN IF StrLt(a[mid + 1], x)
            THEN bisect_loop(a, x, mid + 1, hi)
            ELSE bisect_loop(a, x, lo, mid)
    ELSE lo

bisect_left(a, x) == bisect_loop(a, x, 0, Len(a))

\* insort_left as list.append: the element goes to the end of the list
insort_left_append(a, x) == a \o <<x>>

\* insort_left with the comparison of the binary search the wrong way round
insort_left_reversed(a, x) ==
    ListInsert(a, Cardinality({i \in 1..Len(a) : StrLt(x, a[i])}), x)

\* bisect.insort_left(a, x)
insort_left(a, x) == ListInsert(a, bisect_left(a, x), x)

-----------------------------------------------------------------------------
(* replace_dep *)

\* old as replace_dep receives it: a str ([str |-> s]) or an iterable of str
\* ([list |-> <<...>>]); the isinstance test turns a str into a one-item list
OldItems(old) == IF "str" \in DOMAIN old THEN <<old.str>> ELSE old.list

\* the loop "for item in old: if item in depends: depends.remove(item)";
\* yields the list left and whether anything was removed
RECURSIVE remove_loop(_, _, _)
remove_loop(depends, items, removed) ==
    IF items = <<>> THEN [depends |-> depends, removed |-> removed]
    ELSE IF In(Head(items), depends)
         THEN remove_loop(ListRemove(depends, Head(items)), Tail(items), TRUE)
         ELSE remove_loop(depends, Tail(items), removed)

\* replace_dep inserting new whether or not anything was removed or append set
replace_dep_always_insert(depends, old, new, append) ==
    IF append /\ new = None
    THEN [depends |-> depends, ret |-> "TypeError"]
    ELSE LET r == remove_loop(depends, OldItems(old), FALSE)
         IN IF new # None /\ ~In(new, r.depends)
            THEN [depends |-> insort_left(r.depends, new),
                  ret |-> IF r.removed THEN "~" ELSE "+"]
            ELSE [depends |-> r.depends,
                  ret |-> IF r.removed THEN "-" ELSE "="]

\* replace_dep without the test that new is not yet in depends
replace_dep_no_dup_test(depends, old, new, append) ==
    IF append /\ new = None
    THEN [depends |-> depends, ret |-> "TypeError"]
    ELSE LET r == remove_loop(depends, OldItems(old), FALSE)
         IN IF (r.removed \/ append) /\ new # None
            THEN [depends |-> insort_left(r.depends, new),
                  ret |-> IF r.removed THEN "~" ELSE "+"]
            ELSE [depends |-> r.depends,
                  ret |-> IF r.removed THEN "-" ELSE "="]

\* replace_dep testing for append-with-None only after the removal loop
replace_dep_late_raise(depends, old, new, append) ==
    LET r == remove_loop(depends, OldItems(old), FALSE)
    IN IF append /\ new = None
       THEN [depends |-> r.depends, ret |-> "TypeError"]
       ELSE IF (r.removed \/ append) /\ new # None /\ ~In(new, r.depends)
            THEN [depends |-> insort_left(r.depends, new),
                  ret |-> IF r.removed THEN "~" ELSE "+"]
            ELSE [depends |-> r.depends,
                  ret |-> IF r.removed THEN "-" ELSE "="]

\* replace_dep adding new with append and sort instead of insort_left
replace_dep_sort(depends, old, new, append) ==
    IF append /\ new = None
    THEN [depends |-> depends, ret |-> "TypeError"]
    ELSE LET r == remove_loop(depends, OldItems(old), FALSE)
         IN IF (r.removed \/ append) /\ new # None /\ ~In(new, r.depends)
            THEN [depends |-> SortSeq(Append(r.depends, new), LAMBDA x, y : StrLt(x, y)),
                  ret |-> IF r.removed THEN "~" ELSE "+"]
            ELSE [depends |-> r.depends,
                  ret |-> IF r.removed THEN "-" ELSE "="]

\* replace_dep(depends, old, new, append=append): the list as the call leaves
\* it and the value returned, "TypeError" standing for the exception raised
replace_dep(depends, old, new, append) ==
    IF append /\ new = None
    THEN [depends |-> depends, ret |-> "TypeError"]
    ELSE LET r == remove_loop(depends, OldItems(old), FALSE)
         IN IF (r.removed \/ append) /\ new # None /\ ~In(new, r.depends)
            THEN [depends |-> insort_left(r.depends, new),
                  ret |-> IF r.removed THEN "~" ELSE "+"]
            ELSE [depends |-> r.depends,
                  ret |-> IF r.removed THEN "-" ELSE "="]

-----------------------------------------------------------------------------
(* Calls of replace_dep on arbitrary arguments *)

\* dependency specifiers the arguments are drawn from
Specifiers == {"attrs >=22.2.0", "conda >=23.1.0", "pytest >=7.0.0", "pytest >=7.2.2"}

SeqsUpTo(S, n) == UNION {[1..k -> S] : k \in 0..n}

OldArgs == {[str |-> s] : s \in Specifiers}
             \cup {[list |-> l] : l \in SeqsUpTo(Specifiers, MaxOld)}

\* do_hotfixes is not running
IdleHotfixes ==
    /\ step = 0
    /\ pos = 0
    /\ repodatas = <<>>
    /\ remote = <<>>
    /\ repodata_files = <<>>
    /\ patch_files = <<>>
    /\ writes = <<>>

\* no call of rename_dependency is being examined
IdleRename ==
    /\ rn_depends = <<>>
    /\ rn_old_name = ""
    /\ rn_new_name = ""
    /\ rn_entry = <<>>
    /\ rn_pre = <<>>
    /\ rn_calls = 0

\* no repodata of r.py is being examined
IdlePackageTypes ==
    /\ pt_repodata = <<>>
    /\ pt_instructions = <<>>
    /\ pt_loaded = <<>>
    /\ pt_pc = "idle"

\* no record is being examined by the numpy 2 generators
IdleNumpy2 ==
    /\ np_fn = ""
    /\ np_record = <<>>
    /\ np_config = <<>>
    /\ np_patch = <<>>
    /\ np_proposed = <<>>
    /\ np_ran = {}

\* no index is being patched
IdlePatch ==
    /\ subdir = ""
    /\ index = <<>>
    /\ original = <<>>
    /\ todo = {}
    /\ instructions = <<>>
    /\ last = None
    /\ pre_index = <<>>
    /\ pre_instructions = <<>>
    /\ exc = ""
    /\ os_name = "posix"
    /\ pc = "idle"

InitReplaceDep ==
    /\ IdlePatch
    /\ IdleHotfixes /\ IdleRename /\ IdlePackageTypes /\ IdleNumpy2
    /\ rd_depends \in SeqsUpTo(Specifiers, MaxDepends)
    /\ rd_old \in OldArgs
    /\ rd_new \in Specifiers \cup {None}
    /\ rd_append \in BOOLEAN
    /\ rd_pre = rd_depends
    /\ rd_ret = "not called"
    /\ rd_calls = 0

\* one call replace_dep(depends, old, new, append=append)
CallReplaceDep ==
    /\ rd_calls < MaxCalls
    /\ LET r == replace_dep(rd_depends, rd_old, rd_new, rd_append)
       IN /\ rd_depends' = r.depends
          /\ rd_ret' = r.ret
    /\ rd_pre' = rd_depends
    /\ rd_calls' = rd_calls + 1
    /\ UNCHANGED <<rd_old, rd_new, rd_append>>
    /\ UNCHANGED prvars
    /\ UNCHANGED othervars

NextReplaceDep == CallReplaceDep

SpecReplaceDep == InitReplaceDep /\ [][NextReplaceDep]_vars

-----------------------------------------------------------------------------
(* Properties of replace_dep, checked under SpecReplaceDep *)

\* the set of specifiers named by old
OldSet == {OldItems(rd_old)[i] : i \in 1..Len(OldItems(rd_old))}

\* some element of old was in depends when the latest call was entered
OldPresent == \E o \in OldSet : In(o, rd_pre)

\* lst without every occurrence of the elements of S
Without(lst, S) == SelectSeq(lst, LAMBDA x : x \notin S)

\* number of occurrences of x in lst
Count(lst, x) == Cardinality({i \in 1..Len(lst) : lst[i] = x})

\* lst is in ascending str order
IsSorted(lst) == \A i \in 1..(Len(lst) - 1) : ~StrLt(lst[i+1], lst[i])

\* the latest call has been made
Called == rd_calls >= 1

\* big is small with x inserted at one position
InsertedInto(big, small, x) ==
    \E i \in 1..Len(big) : big[i] = x /\ RemoveAt(big, i) = small

\* C1: with new non-null, an element of old in depends and new not in
\* depends, the call removes the old occurrences, puts new at its sorted
\* position and returns '~', for old a str or a list, with or without append.
C1_ReplacedClaim ==
    (Called /\ rd_new # None /\ OldPresent /\ ~In(rd_new, rd_pre))
        => /\ rd_ret = "~"
           /\ InsertedInto(rd_depends, Without(rd_pre, OldSet), rd_new)
           /\ IsSorted(rd_pre) => IsSorted(rd_depends)

\* C2: replace_dep(depends, old, None) with an element of old in depends
\* removes every occurrence of every element of old, inserts nothing and
\* returns '-'.
C2_RemovedClaim ==
    (Called /\ rd_new = None /\ ~rd_append /\ OldPresent)
        => /\ rd_ret = "-"
           /\ rd_depends = Without(rd_pre, OldSet)

\* C3: with append=True, no element of old in depends and new not in depends,
\* new is inserted at its sorted position, the list grows by exactly one
\* element, no other element changes, and the call returns '+'.
C3_Inserted ==
    (Called /\ rd_append /\ rd_new # None /\ ~OldPresent /\ ~In(rd_new, rd_pre))
        => /\ rd_ret = "+"
           /\ Len(rd_depends) = Len(rd_pre) + 1
           /\ InsertedInto(rd_depends, rd_pre, rd_new)
           /\ IsSorted(rd_pre) => IsSorted(rd_depends)

C3_Witness ==
    /\ Called /\ rd_append /\ rd_new # None /\ ~OldPresent /\ ~In(rd_new, rd_pre)
    /\ rd_ret = "+"
    /\ Len(rd_pre) = 2 /\ IsSorted(rd_pre)
    /\ rd_depends[2] = rd_new

\* C4: without append, when no element of old is in depends, depends is left
\* exactly as it was and the call returns '=', whether new is null, already
\* present or a specifier not in the list.
C4_AbsentUnchanged ==
    (Called /\ ~rd_append /\ ~OldPresent)
        => /\ rd_depends = rd_pre
           /\ rd_ret = "="

C4_Witness ==
    /\ Called /\ ~rd_append /\ ~OldPresent
    /\ rd_new # None /\ ~In(rd_new, rd_pre)
    /\ Len(rd_pre) >= 1 /\ OldSet # {}
    /\ rd_ret = "="

\* C5: with append=True, no element of old in depends and new already in
\* depends, depends is unchanged (no second copy of new) and the call
\* returns '='.
C5_AppendDuplicate ==
    (Called /\ rd_append /\ ~OldPresent /\ rd_new # None /\ In(rd_new, rd_pre))
        => /\ rd_depends = rd_pre
           /\ rd_ret = "="

C5_Witness ==
    /\ Called /\ rd_append /\ ~OldPresent /\ rd_new # None /\ In(rd_new, rd_pre)
    /\ Count(rd_depends, rd_new) = 1
    /\ rd_ret = "="

\* C6: with new non-null, an element of old in depends and new already in
\* depends as a different entry (new is none of the old specifiers), the old
\* entries are removed, new is not inserted a second time and the call
\* returns '-', with or without append.
C6_ReplaceByPresentClaim ==
    (Called /\ rd_new # None /\ In(rd_new, rd_pre) /\ rd_new \notin OldSet
       /\ OldPresent)
        => /\ rd_ret = "-"
           /\ rd_depends = Without(rd_pre, OldSet)

\* C7: replace_dep with new = None and append = True raises TypeError for
\* every depends and every old, and leaves depends unchanged.
C7_AppendNoneRaises ==
    (Called /\ rd_new = None /\ rd_append)
        => /\ rd_ret = "TypeError"
           /\ rd_depends = rd_pre

C7_Witness ==
    /\ Called /\ rd_new = None /\ rd_append
    /\ OldPresent
    /\ rd_ret = "TypeError"

\* C8: a second call of replace_dep with the same old, new and append leaves
\* depends equal to what it was after the first call.
C8_IdempotentClaim ==
    (rd_calls = 2 /\ rd_ret # "TypeError") => rd_depends = rd_pre

\* C9: if depends is in ascending str order before the call, it is in
\* ascending str order after it, for every old, new and append.
C9_StaysSorted ==
    (Called /\ IsSorted(rd_pre)) => IsSorted(rd_depends)

C9_Witness ==
    /\ Called /\ IsSorted(rd_pre) /\ Len(rd_pre) = 3
    /\ rd_ret = "~"
    /\ rd_depends # rd_pre
    /\ rd_depends[1] # rd_new /\ rd_depends[Len(rd_depends)] # rd_new

-----------------------------------------------------------------------------
(* More Python built-ins *)

\* s.startswith(p)
StartsWith(s, p) == Len(p) <= Len(s) /\ SubSeq(s, 1, Len(p)) = p

\* s.split(): the maximal runs of non-blank characters of s, in order
RECURSIVE split_loop(_, _, _)
split_loop(s, cur, acc) ==
    IF s = "" THEN (IF cur = "" THEN acc ELSE Append(acc, cur))
    ELSE IF Head(s) = " "
         THEN split_loop(Tail(s), "", IF cur = "" THEN acc ELSE Append(acc, cur))
         ELSE split_loop(Tail(s), cur \o Head(s), acc)

Split(s) == split_loop(s, "", <<>>)

\* sorted(lst) for a list of str
Sorted(lst) == SortSeq(lst, LAMBDA a, b : StrLt(a, b))

\* the letters, lower case and upper case in the same order
LowerLetters == "abcdefghijklmnopqrstuvwxyz"

UpperLetters == "ABCDEFGHIJKLMNOPQRSTUVWXYZ"

\* the character of the alphabet to that stands where c stands in from, or c
MapChar(c, from, to) ==
    IF \E i \in 1..Len(from) : SubSeq(from, i, i) = c
    THEN LET i == CHOOSE i \in 1..Len(from) : SubSeq(from, i, i) = c
         IN SubSeq(to, i, i)
    ELSE c

\* s.upper() and s.lower() on ASCII strings
RECURSIVE Upper(_)
Upper(s) ==
    IF s = "" THEN ""
    ELSE MapChar(SubSeq(s, 1, 1), LowerLetters, UpperLetters) \o Upper(Tail(s))

\* the lower-case letter of every upper-case letter
LowerOf ==
    [c \in {SubSeq(UpperLetters, i, i) : i \in 1..Len(UpperLetters)} |->
        MapChar(c, UpperLetters, LowerLetters)]

RECURSIVE Lower(_)
Lower(s) ==
    IF s = "" THEN ""
    ELSE LET c == SubSeq(s, 1, 1)
         IN (IF c \in DOMAIN LowerOf THEN LowerOf[c] ELSE c) \o Lower(Tail(s))

\* fnmatch.fnmatchcase(name, pat): '*' matches any run of characters, '?' any
\* one character, every other character of the patterns in REVOKED and
\* REMOVALS matches itself
RECURSIVE fnmatchcase(_, _)
fnmatchcase(name, pat) ==
    IF pat = "" THEN name = ""
    ELSE IF Head(pat) = "*"
         THEN fnmatchcase(name, Tail(pat)) \/ (name # "" /\ fnmatchcase(Tail(name), pat))
         ELSE IF name = "" THEN FALSE
         ELSE IF Head(pat) = "?" \/ Head(pat) = Head(name)
              THEN fnmatchcase(Tail(name), Tail(pat))
              ELSE FALSE

\* os.path.normcase(s) for a string without slashes: posixpath returns it as
\* it is, ntpath folds it to lower case
normcase(s) == IF os_name = "nt" THEN Lower(s) ELSE s

\* fnmatch.fnmatch(name, pat)
fnmatch(name, pat) == fnmatchcase(normcase(name), normcase(pat))

\* the characters a to b of s
Slice(s, a, b) == IF a > b THEN "" ELSE SubSeq(s, a, b)

\* sub in s
Contains(s, sub) ==
    \E i \in 1..(Len(s) - Len(sub) + 1) : SubSeq(s, i, i + Len(sub) - 1) = sub

\* d.get(key) for a str-valued key: None when the key is missing
Get(d, key) == IF key \in DOMAIN d THEN d[key] ELSE None

\* d[key] = val
SetKey(d, key, val) == (key :> val) @@ d

\* the keys of a record or of an instructions entry whose value is a str or
\* None; the other keys hold a list, an int or a bool and never None
StrKeys ==
    {"name", "version", "build", "subdir", "namespace", "features", "track_features",
     "license_family", "app_entry", "app_type", "type", "timestamp"}

\* d.get(key) is None: the key is missing or holds None
IsNone(d, key) == key \notin DOMAIN d \/ (key \in StrKeys /\ d[key] = None)

\* a.get(key) != b.get(key)
GetDiffers(a, b, key) ==
    IF IsNone(a, key) \/ IsNone(b, key)
    THEN IsNone(a, key) # IsNone(b, key)
    ELSE a[key] # b[key]

-----------------------------------------------------------------------------
(* The rule tables of main.py, for the platforms of the model *)

\* platforms whose index the model patches
Subdirs == {"linux-64", "linux-ppc64le"}

\* platforms of the indexes that hold a single record; REMOVALS and REVOKED
\* have no list for linux-aarch64
RecordSubdirs == {"linux-64", "linux-aarch64", "linux-ppc64le", "win-64"}

\* REMOVALS, restricted to the platforms of the model and "any"
REMOVALS ==
    [k \in {"linux-64", "linux-ppc64le", "win-64", "any"} |->
        CASE k = "linux-ppc64le" ->
               {"cffi-1.14.6-py36h140841e_0.tar.bz2",
                "cffi-1.14.6-py37h140841e_0.tar.bz2",
                "cffi-1.14.6-py38h140841e_0.tar.bz2",
                "cffi-1.14.6-py39h140841e_0.tar.bz2"}
          [] k = "linux-64" ->
               {"numba-0.46.0-py38h962f231_0.tar.bz2",
                "cffi-1.14.6-py36h7f8727e_0.tar.bz2",
                "cffi-1.14.6-py37h7f8727e_0.tar.bz2",
                "cffi-1.14.6-py38h7f8727e_0.tar.bz2",
                "cffi-1.14.6-py39h7f8727e_0.tar.bz2"}
          [] k = "win-64" ->
               {"nomkl-*",
                "numba-0.46.0-py38hf9181ef_0.tar.bz2",
                "freetype-2.11.0-ha860e81_0.tar.bz2"}
          [] k = "any" ->
               {"numpy-*1.11.3-*_6.tar.bz2",
                "numpy-*1.14.3-*_2.tar.bz2",
                "numpy-1.14.5-py35h28100ab_0.tar.bz2",
                "vs2017_win-*-15.5.2*",
                "vs2017*h590f102_0*",
                "vs2017*hb4ce483_0*",
                "libtiff-4.0.10-*_1001.tar.bz2",
                "libarchive-3.3.3-*_0",
                "conda-package-handling-1.5.0*",
                "mkl*-2019.5*",
                "daal*-2019.5*",
                "intel-openmp*-2019.5*",
                "numpy-devel-1.14.3*",
                "anaconda-client-1.9.0-py310*",
                "navigator-updater-0.5.0-*"}]

\* REVOKED, restricted to the platforms of the model and "any"
REVOKED ==
    [k \in {"linux-64", "linux-ppc64le", "win-64", "any"} |->
        CASE k = "linux-64" ->
               {"tensorflow-base-1.9.0-gpu_py35h9f529ab_0.tar.bz2",
                "tensorflow-base-1.9.0-gpu_py36h9f529ab_0.tar.bz2",
                "tensorflow-base-1.9.0-gpu_py27h9f529ab_0.tar.bz2",
                "g*_linux-64-7.2.0-24.tar.bz2"}
          [] k = "linux-ppc64le" -> {}
          [] k = "win-64" -> {"spyder-kernels-1.0.1-*_0"}
          [] k = "any" ->
               {"anaconda-navigator-2.6.0-*_1.*",
                "anaconda-navigator-2.6.1-*_1.*",
                "git-2.40.1-*_2.*",
                "git-2.40.1-*_3.*",
                "notebook-7.0.8-*_1.*",
                "spyder-5.5.1-*_1.*",
                "spyder-5.5.1-*_2.*",
                "anaconda-cli-base-0.4.1-*_0.*"}]

\* NP_BASE_LOOSE_PIN, restricted to the platforms of the model
NP_BASE_LOOSE_PIN ==
    [k \in Subdirs \cup RecordSubdirs |->
        CASE k = "linux-64" ->
             {"numpy-base-1.11.3-py27h2b20989_8.tar.bz2",
              "numpy-base-1.11.3-py27hdbf6ddf_8.tar.bz2",
              "numpy-base-1.11.3-py36h2b20989_8.tar.bz2",
              "numpy-base-1.11.3-py36hdbf6ddf_8.tar.bz2",
              "numpy-base-1.11.3-py37h2b20989_8.tar.bz2",
              "numpy-base-1.11.3-py37hdbf6ddf_8.tar.bz2",
              "numpy-base-1.15.1-py27h74e8950_0.tar.bz2",
              "numpy-base-1.15.1-py27h81de0dd_0.tar.bz2",
              "numpy-base-1.15.1-py35h74e8950_0.tar.bz2",
              "numpy-base-1.15.1-py35h81de0dd_0.tar.bz2",
              "numpy-base-1.15.1-py36h74e8950_0.tar.bz2",
              "numpy-base-1.15.1-py36h81de0dd_0.tar.bz2",
              "numpy-base-1.15.1-py37h74e8950_0.tar.bz2",
              "numpy-base-1.15.1-py37h81de0dd_0.tar.bz2",
              "numpy-base-1.9.3-py27h2b20989_7.tar.bz2",
              "numpy-base-1.9.3-py27hdbf6ddf_7.tar.bz2",
              "numpy-base-1.9.3-py35h2b20989_7.tar.bz2",
              "numpy-base-1.9.3-py35hdbf6ddf_7.tar.bz2",
              "numpy-base-1.9.3-py36h2b20989_7.tar.bz2",
              "numpy-base-1.9.3-py36hdbf6ddf_7.tar.bz2",
              "numpy-base-1.9.3-py37h2b20989_7.tar.bz2",
              "numpy-base-1.9.3-py37hdbf6ddf_7.tar.bz2"}
          [] k = "win-64" ->
             {"numpy-base-1.15.1-py27h2753ae9_0.tar.bz2",
              "numpy-base-1.15.1-py35h8128ebf_0.tar.bz2",
              "numpy-base-1.15.1-py36h8128ebf_0.tar.bz2",
              "numpy-base-1.15.1-py37h8128ebf_0.tar.bz2"}
          [] k = "linux-aarch64" -> {}
          [] k = "linux-ppc64le" ->
             {"numpy-base-1.11.3-py27h2b20989_8.tar.bz2",
              "numpy-base-1.11.3-py36h2b20989_8.tar.bz2",
              "numpy-base-1.15.1-py27h74e8950_0.tar.bz2",
              "numpy-base-1.15.1-py35h74e8950_0.tar.bz2",
              "numpy-base-1.15.1-py36h74e8950_0.tar.bz2",
              "numpy-base-1.15.1-py37h74e8950_0.tar.bz2"}]

BLAS_USING_PKGS == {"numpy", "numpy-base", "scipy", "numexpr", "scikit-learn", "libmxnet"}

\* table.get(key, []) for one of the tables above
TableGet(table, key) == IF key \in DOMAIN table THEN table[key] ELSE {}

-----------------------------------------------------------------------------
(* is_revoked, is_removed *)

is_revoked(fn, sd) ==
    \/ \E rev \in TableGet(REVOKED, sd) : fnmatch(fn, rev)
    \/ \E rev \in TableGet(REVOKED, "any") : fnmatch(fn, rev)

is_removed(fn, sd) ==
    \/ \E rev \in TableGet(REMOVALS, sd) : fnmatch(fn, rev)
    \/ \E rev \in TableGet(REMOVALS, "any") : fnmatch(fn, rev)

-----------------------------------------------------------------------------
(* The patch instructions *)

\* instructions as _patch_repodata creates them; "packages" is a
\* defaultdict(dict), here a function defined on the filenames that have an entry
NewInstructions ==
    [patch_instructions_version |-> 1, packages |-> <<>>, revoke |-> <<>>, remove |-> <<>>]

\* instructions["packages"][fn], which a defaultdict creates empty on first use
Entry(instr, fn) == IF fn \in DOMAIN instr.packages THEN instr.packages[fn] ELSE <<>>

\* instructions["packages"][fn][key] = val
SetInstr(instr, fn, key, val) ==
    [instr EXCEPT !.packages = (fn :> SetKey(Entry(instr, fn), key, val)) @@ instr.packages]

-----------------------------------------------------------------------------
(* _apply_namespace_overrides *)

namespace_in_name_set ==
    {"python-crfsuite", "python-daemon", "python-dateutil", "python-editor",
     "python-engineio", "python-gflags", "python-ldap", "python-memcached",
     "python-ntlm", "python-rapidjson", "python-slugify", "python-snappy",
     "python-socketio", "python-sybase", "python-utils"}

namespace_overrides ==
    [n \in {"boost", "ninja", "numpy-devel", "texlive-core", "keras", "keras-gpu",
            "git", "python-javapackages-cos7-ppc64le", "anaconda", "conda-env",
            "tensorflow", "tensorflow-gpu", "xcb-proto", "mxnet"} |->
        IF n \in {"ninja", "texlive-core", "git", "python-javapackages-cos7-ppc64le",
                  "xcb-proto"}
        THEN "global" ELSE "python"]

\* the namespace entry written whenever the name has an override, whatever
\* namespace the record already carries
_apply_namespace_overrides(fn, record, instr) ==
    LET in_name == /\ record.name \in namespace_in_name_set
                   /\ ~("namespace_in_name" \in DOMAIN record /\ record.namespace_in_name)
        i1 == IF in_name THEN SetInstr(instr, fn, "namespace_in_name", TRUE) ELSE instr
    IN IF record.name \in DOMAIN namespace_overrides
       THEN SetInstr(i1, fn, "namespace", namespace_overrides[record.name])
       ELSE i1

-----------------------------------------------------------------------------
(* patch_record_in_place: the rules that can apply to a record of the       *)
(* catalogue below, in the order of the source.  Every other rule of the    *)
(* function is guarded by a package name, filename, platform or dependency  *)
(* specifier that no record of the catalogue has.  depends is an alias of   *)
(* record["depends"], so an edit of depends is an edit of the record.       *)
(* A rule that can raise yields the record as the exception leaves it and   *)
(* the exception, "" standing for a normal return.                          *)

\* a normal return that leaves the record as given
Ok(record) == [record |-> record, exc |-> ""]

\* the statements after a rule run only if the rule raised nothing (res is
\* bound to r so that it is evaluated once)
Then(res, rule(_)) ==
    CHOOSE out \in {IF r.exc # "" THEN r ELSE rule(r.record) : r \in {res}} : TRUE

\* name = record["name"] ... depends = record["depends"]
read_fields(record) ==
    IF {"name", "version", "build", "build_number", "depends"} \subseteq DOMAIN record
    THEN Ok(record)
    ELSE [record |-> record, exc |-> "KeyError"]

\* if "subdir" not in record: record["subdir"] = subdir
rule_subdir(record, sd) ==
    IF "subdir" \notin DOMAIN record THEN SetKey(record, "subdir", sd) ELSE record

\* the conda-env rule without the test on the dependencies
rule_conda_env_namespace_any(record) ==
    IF record.name = "conda-env"
    THEN SetKey(record, "namespace", "python")
    ELSE record

\* conda-env without a python dependency gets namespace python
rule_conda_env_namespace(record) ==
    IF /\ record.name = "conda-env"
       /\ ~\E i \in 1..Len(record.depends) : StartsWith(record.depends[i], "python")
    THEN SetKey(record, "namespace", "python")
    ELSE record

\* the value a loop "for dep in depends: if dep.startswith(prefix): var = dep"
\* leaves in var: the last such dep, None standing for a variable never bound
LastStartingWith(depends, prefix) ==
    LET S == {i \in 1..Len(depends) : StartsWith(depends[i], prefix)}
    IN IF S = {} THEN None ELSE depends[CHOOSE i \in S : \A j \in S : j <= i]

\* the exceptions _fix_cudnn_depends can end with
CudnnErrors == {"Exception: unknown cudnn depedency", "UnboundLocalError"}

\* correct_cudnn_depends as _fix_cudnn_depends computes it, or the exception
\* raised on the way; reading cudatoolkit_depend when no dependency bound it
\* raises UnboundLocalError
correct_cudnn_depends(original_cudnn_depend, cudatoolkit_depend, sd) ==
    LET is_seven_star == \/ StartsWith(original_cudnn_depend, "cudnn 7*")
                         \/ StartsWith(original_cudnn_depend, "cudnn 7.*")
    IN IF StartsWith(sd, "win-") THEN "cudnn >=7.1.4,<8.0a0"
       ELSE IF StartsWith(original_cudnn_depend, "cudnn 7.0") THEN "cudnn >=7.0.0,<=8.0a0"
       ELSE IF StartsWith(original_cudnn_depend, "cudnn 7.1.*") THEN "cudnn >=7.1.0,<=8.0a0"
       ELSE IF StartsWith(original_cudnn_depend, "cudnn 7.2.*") THEN "cudnn >=7.2.0,<=8.0a0"
       ELSE IF is_seven_star /\ cudatoolkit_depend = None THEN "UnboundLocalError"
       ELSE IF is_seven_star /\ StartsWith(cudatoolkit_depend, "cudatoolkit 8.0")
            THEN "cudnn >=7.0.5,<=8.0a0"
       ELSE IF is_seven_star /\ StartsWith(cudatoolkit_depend, "cudatoolkit 9.0")
            THEN "cudnn >=7.1.2,<=8.0a0"
       ELSE IF is_seven_star /\ StartsWith(cudatoolkit_depend, "cudatoolkit 9.2")
            THEN "cudnn >=7.2.1,<=8.0a0"
       ELSE IF original_cudnn_depend = "cudnn 7.3.*" THEN "cudnn >=7.3.0,<=8.0a0"
       ELSE "Exception: unknown cudnn depedency"

\* _fix_cudnn_depends(depends, subdir): called only when some dependency
\* starts with "cudnn 7"; the last dependency that starts with "cudnn" is the
\* one looked at, and depends.index finds the first entry equal to it
_fix_cudnn_depends(depends, sd) ==
    LET original_cudnn_depend == LastStartingWith(depends, "cudnn")
        correct == correct_cudnn_depends(original_cudnn_depend,
                                         LastStartingWith(depends, "cudatoolkit"), sd)
    IN IF correct \in CudnnErrors
       THEN [depends |-> depends, exc |-> correct]
       ELSE [depends |-> [depends EXCEPT ![IndexOf(original_cudnn_depend, depends)] = correct],
             exc |-> ""]

\* if any(dep.startswith("cudnn 7") for dep in depends): _fix_cudnn_depends(...)
rule_cudnn(record, sd) ==
    IF \E i \in 1..Len(record.depends) : StartsWith(record.depends[i], "cudnn 7")
    THEN LET r == _fix_cudnn_depends(record.depends, sd)
         IN [record |-> [record EXCEPT !.depends = r.depends], exc |-> r.exc]
    ELSE Ok(record)

\* depends[:] = depends + ["blas * openblas"] unless a dependency starts with "blas "
add_blas_openblas(depends) ==
    IF \E i \in 1..Len(depends) : StartsWith(depends[i], "blas ")
    THEN depends
    ELSE depends \o <<"blas * openblas">>

\* _fix_nomkl_features(record, depends) for a features value that is a str
\* or None: "nomkl" in None raises TypeError, and a str has no remove method
_fix_nomkl_features(record) ==
    IF record.features = None
    THEN [record |-> record, exc |-> "TypeError"]
    ELSE IF record.features = "nomkl"
    THEN Ok([record EXCEPT !.features = None, !.depends = add_blas_openblas(@)])
    ELSE IF Contains(record.features, "nomkl")
    THEN [record |-> record, exc |-> "AttributeError"]
    ELSE Ok(record)

\* if "features" in record: _fix_nomkl_features(record, depends)
rule_nomkl(record) ==
    IF "features" \in DOMAIN record THEN _fix_nomkl_features(record) ELSE Ok(record)

\* the blas mutex metapackage for packages that have just mkl or openblas deps
rule_blas_mutex(record) ==
    LET depends == record.depends
        DepName(i) == Split(depends[i])[1]
    IN IF /\ record.name \in BLAS_USING_PKGS
          /\ ~\E i \in 1..Len(depends) : DepName(i) = "blas"
       THEN IF \E i \in 1..Len(depends) : DepName(i) = "mkl"
            THEN [record EXCEPT !.depends = Append(depends, "blas * mkl")]
            ELSE IF \E i \in 1..Len(depends) : DepName(i) \in {"openblas", "libopenblas"}
                 THEN [record EXCEPT !.depends = Append(depends, "blas * openblas")]
                 ELSE record
       ELSE record

\* versioneer: a license family of none becomes PUBLIC-DOMAIN; the rule
\* subscripts the record, so a record without the key raises KeyError
rule_versioneer(record) ==
    IF record.name = "versioneer"
    THEN IF "license_family" \notin DOMAIN record
         THEN [record |-> record, exc |-> "KeyError"]
         ELSE IF Upper(record.license_family) = "NONE"
              THEN Ok(SetKey(record, "license_family", "PUBLIC-DOMAIN"))
              ELSE Ok(record)
    ELSE Ok(record)

\* _replace_vc_features_with_vc_pkg_deps, called on the win- platforms: git
\* loses its vc dependencies; "vc" in record.get("features", "") raises
\* TypeError for a features key that holds None; the branches for python,
\* vs2015_win-64, yasm and for features that name vc apply to no record of
\* the catalogue
rule_vc_features(record, sd) ==
    IF ~StartsWith(sd, "win-") THEN Ok(record)
    ELSE IF record.name = "git"
    THEN Ok([record EXCEPT !.depends = SelectSeq(@, LAMBDA dep : ~StartsWith(dep, "vc "))])
    ELSE IF "features" \in DOMAIN record /\ record.features = None
    THEN [record |-> record, exc |-> "TypeError"]
    ELSE Ok(record)

\* the messages of the exceptions the anaconda rule can end with
MultipleMkl == "Exception: Found multiple mkl entries, expected only 1."

\* anaconda 5.3.0 and 5.3.1: the mkl 2019 dependency becomes mkl 2018.0.3 1;
\* i.split()[1] raises IndexError for a dependency that is just "mkl"
rule_anaconda_mkl(record) ==
    LET depends == record.depends
        IsMkl(i) == Split(depends[i])[1] = "mkl"
        mkl_version == SelectSeq(depends, LAMBDA d :
                           Split(d)[1] = "mkl" /\ Len(Split(d)) >= 2
                               /\ Contains(Split(d)[2], "2019"))
    IN IF record.name = "anaconda" /\ record.version \in {"5.3.0", "5.3.1"}
       THEN IF \E i \in 1..Len(depends) : IsMkl(i) /\ Len(Split(depends[i])) < 2
            THEN [record |-> record, exc |-> "IndexError"]
            ELSE IF Len(mkl_version) = 1
                 THEN Ok([record EXCEPT !.depends =
                             Append(ListRemove(depends, mkl_version[1]), "mkl 2018.0.3 1")])
                 ELSE IF Len(mkl_version) > 1
                      THEN [record |-> record, exc |-> MultipleMkl]
                      ELSE Ok(record)
       ELSE Ok(record)

\* replace_dep(depends, "kealib >=1.4.7,<1.5.0a0", "kealib >=1.4.7,<1.4.8.0a0")
rule_kealib(record) ==
    [record EXCEPT !.depends =
        replace_dep(@, [str |-> "kealib >=1.4.7,<1.5.0a0"],
                    "kealib >=1.4.7,<1.4.8.0a0", FALSE).depends]

\* numba 0.46.0 and 0.47.0 are missing a dependency on setuptools
rule_numba_setuptools(record) ==
    IF record.name = "numba" /\ record.version \in {"0.46.0", "0.47.0"}
    THEN [record EXCEPT !.depends = Append(@, "setuptools")]
    ELSE record

LINUX_RUNTIME_DEPS == {"libgcc-ng", "libstdcxx-ng", "libgfortran-ng"}

IsDigit(c) == c \in {"0", "1", "2", "3", "4", "5", "6", "7", "8", "9"}

\* the length of the longest prefix of s made of digits and dots
RECURSIVE RunLen(_)
RunLen(s) ==
    IF s # "" /\ (IsDigit(SubSeq(s, 1, 1)) \/ SubSeq(s, 1, 1) = ".")
    THEN 1 + RunLen(Tail(s))
    ELSE 0

\* LINUX_RUNTIME_RE.match(dep) for a dep whose first token is one of
\* LINUX_RUNTIME_DEPS: lib(\w+)-ng, one blank, an optional >=, then
\* ([\d\.]+\d), the longest run of at least two digits and dots that ends in
\* a digit and is followed by the end of the string or by .*
LINUX_RUNTIME_RE(dep) ==
    CHOOSE out \in
        {IF StartsWith(dep, name \o " ")
            /\ \E n \in 2..RunLen(ver) :
                   /\ IsDigit(SubSeq(ver, n, n))
                   /\ (n = Len(ver) \/ Slice(ver, n + 1, n + 2) = ".*")
         THEN [match |-> TRUE,
               group1 |-> Slice(name, 4, Len(name) - 3),
               group2 |-> SubSeq(ver, 1,
                   CHOOSE n \in 2..RunLen(ver) :
                       /\ IsDigit(SubSeq(ver, n, n))
                       /\ (n = Len(ver) \/ Slice(ver, n + 1, n + 2) = ".*")
                       /\ \A m \in (n + 1)..RunLen(ver) :
                              ~(/\ IsDigit(SubSeq(ver, m, m))
                                /\ (m = Len(ver) \/ Slice(ver, m + 1, m + 2) = ".*")))]
         ELSE [match |-> FALSE, group1 |-> "", group2 |-> ""] :
            name \in {Split(dep)[1]},
            ver \in {IF StartsWith(Slice(dep, Len(Split(dep)[1]) + 2, Len(dep)), ">=")
                     THEN Slice(dep, Len(Split(dep)[1]) + 4, Len(dep))
                     ELSE Slice(dep, Len(Split(dep)[1]) + 2, Len(dep))}} : TRUE

\* the body of the loop of _fix_linux_runtime_bounds for one dep: the value
\* depends[i] has afterwards, or ValueError when int(match.group(2)[0]) is
\* given a dot
runtime_bound(dep) ==
    CHOOSE out \in
        {IF Split(dep)[1] \notin LINUX_RUNTIME_DEPS \/ ~match.match THEN dep
         ELSE IF match.group1 # "gfortran"
              THEN "lib" \o match.group1 \o "-ng >=" \o match.group2
         ELSE IF ~IsDigit(SubSeq(match.group2, 1, 1)) THEN "ValueError"
         ELSE IF SubSeq(match.group2, 1, 1) \in {"0", "1", "2", "3", "4", "5", "6", "7"}
              THEN "lib" \o match.group1 \o "-ng >=" \o match.group2 \o ",<8.0a0"
              ELSE "lib" \o match.group1 \o "-ng >=" \o match.group2 :
            match \in {LINUX_RUNTIME_RE(dep)}} : TRUE

\* _fix_linux_runtime_bounds(depends): the list is changed in place one item
\* after the other, so an exception leaves the items before it changed
RECURSIVE _fix_linux_runtime_bounds(_, _)
_fix_linux_runtime_bounds(depends, i) ==
    IF i > Len(depends) THEN [depends |-> depends, exc |-> ""]
    ELSE CHOOSE out \in
             {IF dep = "ValueError" THEN [depends |-> depends, exc |-> "ValueError"]
              ELSE _fix_linux_runtime_bounds([depends EXCEPT ![i] = dep], i + 1) :
                 dep \in {runtime_bound(depends[i])}} : TRUE

\* if subdir.startswith("linux-"): _fix_linux_runtime_bounds(depends)
rule_linux_runtime(record, sd) ==
    IF StartsWith(sd, "linux-")
    THEN CHOOSE out \in
             {[record |-> [record EXCEPT !.depends = r.depends], exc |-> r.exc] :
                 r \in {_fix_linux_runtime_bounds(record.depends, 1)}} : TRUE
    ELSE Ok(record)

\* the value record.depends has when the conda-env namespace rule looks at
\* it: the rule comes right after the subdir rule
depends_at_namespace_rule(record, sd) == rule_subdir(record, sd).depends

\* patch_record_in_place(fn, record, subdir): the record as the call leaves
\* it and the exception it raised, if any
patch_record_in_place(fn, record, sd) ==
    LET s1 == Then(read_fields(record),
                   LAMBDA r : Ok(rule_conda_env_namespace(rule_subdir(r, sd))))
        s2 == Then(s1, LAMBDA r : rule_cudnn(r, sd))
        s3 == Then(s2, LAMBDA r : rule_nomkl(r))
        s4 == Then(s3, LAMBDA r : rule_versioneer(rule_blas_mutex(r)))
        s5 == Then(s4, LAMBDA r : rule_vc_features(r, sd))
        s6 == Then(s5, LAMBDA r : rule_anaconda_mkl(r))
        s7 == Then(s6, LAMBDA r : Ok(rule_numba_setuptools(rule_kealib(r))))
    IN Then(s7, LAMBDA r : rule_linux_runtime(r, sd))

-----------------------------------------------------------------------------
(* _fix_numpy_base_constrains *)

\* [d for d in record["depends"] if d.startswith("numpy-base")]
base_pkgs(record) == SelectSeq(record.depends, LAMBDA d : StartsWith(d, "numpy-base"))

\* "%s-%s-%s.tar.bz2" % (name, ver, build_str)
base_pkg_fn(parts) == parts[1] \o "-" \o parts[2] \o "-" \o parts[3] \o ".tar.bz2"

\* _fix_numpy_base_constrains pinning the exact build whatever the base file
_fix_numpy_base_constrains_exact(record, idx, instr, sd) ==
    IF base_pkgs(record) = <<>> THEN instr
    ELSE LET parts == Split(base_pkgs(record)[1])
         IN IF Len(parts) # 3 THEN instr
            ELSE LET base_fn == base_pkg_fn(parts)
                 IN IF base_fn \notin DOMAIN idx THEN instr
                    ELSE IF "constrains" \in DOMAIN idx[base_fn] THEN instr
                    ELSE SetInstr(instr, base_fn, "constrains",
                                  <<record.name \o " " \o record.version
                                      \o " " \o record.build>>)

\* _fix_numpy_base_constrains without the test for a constrains field
_fix_numpy_base_constrains_overwrite(record, idx, instr, sd) ==
    IF base_pkgs(record) = <<>> THEN instr
    ELSE LET parts == Split(base_pkgs(record)[1])
         IN IF Len(parts) # 3 THEN instr
            ELSE LET base_fn == base_pkg_fn(parts)
                 IN IF base_fn \notin DOMAIN idx THEN instr
                    ELSE LET req ==
                               IF base_fn \in TableGet(NP_BASE_LOOSE_PIN, sd)
                               THEN record.name \o " " \o record.version
                               ELSE record.name \o " " \o record.version
                                      \o " " \o record.build
                         IN SetInstr(instr, base_fn, "constrains", <<req>>)

\* _fix_numpy_base_constrains(record, index, instructions, subdir)
_fix_numpy_base_constrains(record, idx, instr, sd) ==
    IF base_pkgs(record) = <<>> THEN instr
    ELSE LET parts == Split(base_pkgs(record)[1])
         IN IF Len(parts) # 3 THEN instr
            ELSE LET base_fn == base_pkg_fn(parts)
                 IN IF base_fn \notin DOMAIN idx THEN instr
                    ELSE IF "constrains" \in DOMAIN idx[base_fn] THEN instr
                    ELSE LET req ==
                               IF base_fn \in TableGet(NP_BASE_LOOSE_PIN, sd)
                               THEN record.name \o " " \o record.version
                               ELSE record.name \o " " \o record.version
                                      \o " " \o record.build
                         IN SetInstr(instr, base_fn, "constrains", <<req>>)

-----------------------------------------------------------------------------
(* patch_record *)

keys_to_check ==
    <<"app_entry", "app_type", "constrains", "depends", "features", "namespace",
      "license_family", "subdir", "track_features", "type">>

\* for key in keys: if record.get(key) != original_record.get(key):
\*     instructions["packages"][fn][key] = record.get(key)
RECURSIVE record_diff(_, _, _, _, _)
record_diff(fn, record, original_record, keys, instr) ==
    IF keys = <<>> THEN instr
    ELSE record_diff(fn, record, original_record, Tail(keys),
                     IF GetDiffers(record, original_record, Head(keys))
                     THEN SetInstr(instr, fn, Head(keys), Get(record, Head(keys)))
                     ELSE instr)

\* the timestamp set for numba-0.36.1, 1512604800000: a timestamp is written
\* as its decimal digits because it is beyond the 32-bit integers of TLC, and
\* the rule only tests it for equality
NumbaTimestamp == "1512604800000"

\* patch_record with a shallow copy for snapshot: the snapshot shares the
\* depends and constrains lists with the record and sees their edits
patch_record_shallow_copy(fn, record, sd, instr, idx) ==
    LET res == patch_record_in_place(fn, record, sd)
        original_record ==
            [k \in DOMAIN record |->
                IF k \in {"depends", "constrains"} /\ k \in DOMAIN res.record
                THEN res.record[k] ELSE record[k]]
        patched == res.record
        idx1 == [idx EXCEPT ![fn] = patched]
        i1 == record_diff(fn, patched, original_record, keys_to_check, instr)
        i2 == IF patched.name = "numpy"
              THEN _fix_numpy_base_constrains(patched, idx1, i1, sd)
              ELSE i1
        i3 == IF /\ StartsWith(fn, "numba-0.36.1")
                 /\ ("timestamp" \notin DOMAIN patched \/ patched.timestamp # NumbaTimestamp)
              THEN SetInstr(i2, fn, "timestamp", NumbaTimestamp)
              ELSE i2
        i4 == IF sd = "linux-ppc64le" /\ fn = "blas-1.0-openblas.tar.bz2"
              THEN SetInstr(i3, fn, "build_number", 7)
              ELSE i3
    IN IF res.exc # ""
       THEN [index |-> idx1, instructions |-> instr, exc |-> res.exc]
       ELSE [index |-> idx1, instructions |-> i4, exc |-> ""]

\* patch_record putting the constraint on the base record of the index as well
patch_record_touch_base(fn, record, sd, instr, idx) ==
    LET original_record == record
        res == patch_record_in_place(fn, record, sd)
        patched == res.record
        idx1 == [idx EXCEPT ![fn] = patched]
        i1 == record_diff(fn, patched, original_record, keys_to_check, instr)
        i2 == IF patched.name = "numpy"
              THEN _fix_numpy_base_constrains(patched, idx1, i1, sd)
              ELSE i1
        idx2 == IF i2 # i1
                THEN LET base_fn == base_pkg_fn(Split(base_pkgs(patched)[1]))
                     IN [idx1 EXCEPT ![base_fn] =
                            SetKey(@, "constrains", i2.packages[base_fn].constrains)]
                ELSE idx1
        i3 == IF /\ StartsWith(fn, "numba-0.36.1")
                 /\ ("timestamp" \notin DOMAIN patched \/ patched.timestamp # NumbaTimestamp)
              THEN SetInstr(i2, fn, "timestamp", NumbaTimestamp)
              ELSE i2
        i4 == IF sd = "linux-ppc64le" /\ fn = "blas-1.0-openblas.tar.bz2"
              THEN SetInstr(i3, fn, "build_number", 7)
              ELSE i3
    IN IF res.exc # ""
       THEN [index |-> idx1, instructions |-> instr, exc |-> res.exc]
       ELSE [index |-> idx2, instructions |-> i4, exc |-> ""]

\* what patch_record does with the outcome res of patch_record_in_place: the
\* record is compared with original_record key by key, then come the rules
\* that write to the instructions directly
after_patch_in_place(fn, record, res, sd, instr, idx) ==
    LET original_record == record
        patched == res.record
        idx1 == [idx EXCEPT ![fn] = patched]
        i1 == record_diff(fn, patched, original_record, keys_to_check, instr)
        i2 == IF patched.name = "numpy"
              THEN _fix_numpy_base_constrains(patched, idx1, i1, sd)
              ELSE i1
        i3 == IF /\ StartsWith(fn, "numba-0.36.1")
                 /\ ("timestamp" \notin DOMAIN patched \/ patched.timestamp # NumbaTimestamp)
              THEN SetInstr(i2, fn, "timestamp", NumbaTimestamp)
              ELSE i2
        i4 == IF sd = "linux-ppc64le" /\ fn = "blas-1.0-openblas.tar.bz2"
              THEN SetInstr(i3, fn, "build_number", 7)
              ELSE i3
    IN IF res.exc # ""
       THEN [index |-> idx1, instructions |-> instr, exc |-> res.exc]
       ELSE [index |-> idx1, instructions |-> i4, exc |-> ""]

\* patch_record(fn, record, subdir, instructions, index): the index with the
\* record patched in place, the instructions with what it changed, and the
\* exception of patch_record_in_place, which leaves patch_record at once;
\* original_record, a deep copy, keeps the value the record had on entry
patch_record(fn, record, sd, instr, idx) ==
    CHOOSE out \in {after_patch_in_place(fn, record, res, sd, instr, idx) :
                       res \in {patch_record_in_place(fn, record, sd)}} : TRUE

-----------------------------------------------------------------------------
(* The indexes the model patches *)

\* record with the key set as well
With(record, key, val) == SetKey(record, key, val)

\* record without the key
Lacking(record, key) == [k \in DOMAIN record \ {key} |-> record[k]]

\* a record as the index of platform sd lists it
Rec(name, version, build, build_number, depends, sd) ==
    [name |-> name, version |-> version, build |-> build,
     build_number |-> build_number, depends |-> depends, subdir |-> sd]

\* the files of the indexes that hold several records
FileNames ==
    {"boost-1.67.0-py37_4.tar.bz2",
     "numpy-1.11.3-py37h1d66e8a_8.tar.bz2",
     "numpy-1.11.3-py37h7e9f1db_8.tar.bz2",
     "numpy-base-1.11.3-py37h2b20989_8.tar.bz2",
     "numba-0.46.0-py38h962f231_0.tar.bz2",
     "numba-0.46.0-py38H962F231_0.tar.bz2",
     "git-2.40.1-h28b3542_2.tar.bz2",
     "git-2.40.1-h28b3542_3.tar.bz2",
     "gdal-2.2.2-py37hc209d97_1.tar.bz2"}

\* the files that are only patched as the single record of an index
MoreFileNames ==
    {"blas-1.0-openblas.tar.bz2",
     "numba-0.36.1-np113py27_0.tar.bz2",
     "conda-env-2.6.0-1.tar.bz2",
     "python-dateutil-2.8.0-py37_0.tar.bz2",
     "libmxnet-1.2.1-gpu_mkl_hf82a2c8_1.tar.bz2",
     "anaconda-5.3.0-py37_0.tar.bz2",
     "anaconda-5.2.0-py37_3.tar.bz2",
     "versioneer-0.18-py37_0.tar.bz2",
     "numexpr-2.6.1-np113py36_nomkl_0.tar.bz2",
     "libopenblas-0.3.3-h5a2b251_3.tar.bz2"}

\* the cudatoolkit dependency of a record that depends on cudnn, if it has one
CudatoolkitDeps ==
    {<<>>, <<"cudatoolkit 8.0.*">>, <<"cudatoolkit 9.0.*">>, <<"cudatoolkit 10.0.*">>}

\* the shapes of a cudnn 7 dependency; cudnn 7.6.* is one the rule does not know
CudnnShapes == {"cudnn 7.1.*", "cudnn 7.*", "cudnn 7.3.*", "cudnn 7.6.*"}

\* the mkl dependencies an anaconda metapackage may list
MklDeps == {"mkl 2019.0 117", "mkl 2019.0 118", "mkl 2018.0.3 1", "mkl"}

\* the values of the features field of a record: a feature, several features
\* separated by blanks, or null
FeaturesValues == {"nomkl", "nomkl debug", "debug", None}

\* dependencies on the compiler runtimes as records list them
RuntimeDeps ==
    {"libgfortran-ng >=7,<8.0a0", "libgfortran-ng >=7.2.0", "libgfortran-ng 8.2.0",
     "libgfortran-ng >=11.2.0", "libgfortran-ng >=7", "libgcc-ng >=7.3.0",
     "libstdcxx-ng 11.2.0.*", "libgfortran-ng", "libgcc 7.2.0"}

\* the records a file of the index of platform sd may hold
Catalogue(fn, sd) ==
    CASE fn = "boost-1.67.0-py37_4.tar.bz2" ->
           LET r == Rec("boost", "1.67.0", "py37_4", 4, <<>>, sd)
           IN {r, With(r, "namespace", "python")}
      [] fn = "numpy-1.11.3-py37h1d66e8a_8.tar.bz2" ->
           {Rec("numpy", "1.11.3", "py37h1d66e8a_8", 8, d, sd) :
               d \in {<<"numpy-base 1.11.3 py37h2b20989_8">>,
                      <<"numpy-base 1.11.3">>,
                      <<"python >=3.7,<3.8.0a0">>,
                      <<"libopenblas >=0.2.20,<0.2.21.0a0",
                        "numpy-base 1.11.3 py37h2b20989_8">>}}
      [] fn = "numpy-1.11.3-py37h7e9f1db_8.tar.bz2" ->
           {Rec("numpy", "1.11.3", "py37h7e9f1db_8", 8,
                <<"numpy-base 1.11.3 py37h2b20989_8">>, sd)}
      [] fn = "numpy-base-1.11.3-py37h2b20989_8.tar.bz2" ->
           LET r == Rec("numpy-base", "1.11.3", "py37h2b20989_8", 8, <<>>, sd)
           IN {r, With(r, "constrains", <<"numpy 1.11.3">>)}
      [] fn = "numba-0.46.0-py38h962f231_0.tar.bz2" ->
           {Rec("numba", "0.46.0", "py38h962f231_0", 0, <<"llvmlite >=0.30.0">>, sd)}
      [] fn = "numba-0.46.0-py38H962F231_0.tar.bz2" ->
           {Rec("numba", "0.46.0", "py38H962F231_0", 0, <<"llvmlite >=0.30.0">>, sd)}
      [] fn = "git-2.40.1-h28b3542_2.tar.bz2" ->
           {Rec("git", "2.40.1", "h28b3542_2", 2, d, sd) :
               d \in IF sd = "win-64" THEN {<<>>, <<"vc 14.*", "vs2015_runtime">>}
                     ELSE {<<>>}}
      [] fn = "git-2.40.1-h28b3542_3.tar.bz2" ->
           {Rec("git", "2.40.1", "h28b3542_3", 3, <<>>, sd)}
      [] fn = "gdal-2.2.2-py37hc209d97_1.tar.bz2" ->
           {Rec("gdal", "2.2.2", "py37hc209d97_1", 1,
                <<"kealib >=1.4.7,<1.5.0a0", "xerces-c >=3.2.0,<3.3.0a0">>, sd)}
      [] fn = "blas-1.0-openblas.tar.bz2" ->
           {Rec("blas", "1.0", "openblas", n, <<>>, sd) : n \in {6, 7}}
      [] fn = "numba-0.36.1-np113py27_0.tar.bz2" ->
           LET r == Rec("numba", "0.36.1", "np113py27_0", 0, <<"llvmlite 0.21.*">>, sd)
           IN {r, With(r, "timestamp", NumbaTimestamp),
               With(r, "timestamp", "1512593892074")}
      [] fn = "conda-env-2.6.0-1.tar.bz2" ->
           LET r == Rec("conda-env", "2.6.0", "1", 1, <<>>, sd)
           IN {r, With(r, "namespace", "python"), Lacking(r, "subdir"),
               Rec("conda-env", "2.6.0", "1", 1, <<"python">>, sd)}
      [] fn = "python-dateutil-2.8.0-py37_0.tar.bz2" ->
           LET r == Rec("python-dateutil", "2.8.0", "py37_0", 0, <<"six >=1.5">>, sd)
           IN {r, With(r, "namespace_in_name", TRUE), Lacking(r, "depends")}
      [] fn = "libmxnet-1.2.1-gpu_mkl_hf82a2c8_1.tar.bz2" ->
           {Rec("libmxnet", "1.2.1", "gpu_mkl_hf82a2c8_1", 1, ct \o cd, sd) :
               ct \in CudatoolkitDeps,
               cd \in SeqsUpTo(CudnnShapes, MaxCudnn) \ {<<>>}}
      [] fn = "anaconda-5.3.0-py37_0.tar.bz2" ->
           {Rec("anaconda", "5.3.0", "py37_0", 0,
                <<"alabaster 0.7.11 py37_0">> \o m
                    \o <<"mkl-service 1.1.2 py37h90e4bf4_5">>, sd) :
               m \in SeqsUpTo(MklDeps, MaxMkl)}
      [] fn = "anaconda-5.2.0-py37_3.tar.bz2" ->
           {Rec("anaconda", "5.2.0", "py37_3", 3,
                <<"alabaster 0.7.10 py37ha629d95_0", "mkl 2019.0 117">>, sd)}
      [] fn = "versioneer-0.18-py37_0.tar.bz2" ->
           LET r == Rec("versioneer", "0.18", "py37_0", 0, <<"python >=3.7,<3.8.0a0">>, sd)
           IN {r} \cup {With(r, "license_family", lf) :
                           lf \in {"None", "NONE", "PUBLIC-DOMAIN"}}
      [] fn = "numexpr-2.6.1-np113py36_nomkl_0.tar.bz2" ->
           {IF f = "" THEN Rec("numexpr", "2.6.1", "np113py36_nomkl_0", 0, d, sd)
                      ELSE With(Rec("numexpr", "2.6.1", "np113py36_nomkl_0", 0, d, sd),
                                "features", f) :
               f \in FeaturesValues \cup {""},
               d \in {<<"libopenblas >=0.2.20,<0.2.21.0a0">>,
                      <<"blas * openblas", "libopenblas >=0.2.20,<0.2.21.0a0">>}}
      [] fn = "libopenblas-0.3.3-h5a2b251_3.tar.bz2" ->
           {Rec("libopenblas", "0.3.3", "h5a2b251_3", 3, d, sd) :
               d \in SeqsUpTo(RuntimeDeps, MaxRuntime)}

\* the indexes that hold exactly the given files, each with one of its records
RECURSIVE IndexesOver(_, _)
IndexesOver(files, sd) ==
    IF files = {} THEN {<<>>}
    ELSE LET fn == CHOOSE f \in files : TRUE
         IN {(fn :> r) @@ idx : r \in Catalogue(fn, sd),
                                idx \in IndexesOver(files \ {fn}, sd)}

\* the indexes of platform sd: at most MaxRecords files, each with one of its records
Indexes(sd) ==
    UNION {IndexesOver(files, sd) :
           files \in {fs \in SUBSET FileNames : Cardinality(fs) <= MaxRecords}}

-----------------------------------------------------------------------------
(* _patch_repodata *)

\* no call of replace_dep is being examined
IdleReplaceDep ==
    /\ rd_depends = <<>>
    /\ rd_old = [list |-> <<>>]
    /\ rd_new = None
    /\ rd_append = FALSE
    /\ rd_pre = <<>>
    /\ rd_ret = "not called"
    /\ rd_calls = 0

\* _patch_repodata(repodata, subdir) entered on a posix host:
\* index = repodata["packages"]
Init ==
    /\ IdleReplaceDep
    /\ IdleHotfixes /\ IdleRename /\ IdlePackageTypes /\ IdleNumpy2
    /\ subdir \in Subdirs
    /\ index \in Indexes(subdir)
    /\ original = index
    /\ todo = DOMAIN index
    /\ instructions = NewInstructions
    /\ last = None
    /\ pre_index = index
    /\ pre_instructions = NewInstructions
    /\ exc = ""
    /\ os_name = "posix"
    /\ pc = "patching"

\* the body of the loop "for fn, record in index.items()" for one file: the
\* index, the instructions and the exception as patch_record leaves them
loop_body(fn, idx, instr, sd) ==
    LET record == idx[fn]
        i1 == IF is_revoked(fn, sd)
              THEN [instr EXCEPT !.revoke = Append(@, fn)]
              ELSE instr
        i2 == IF is_removed(fn, sd)
              THEN [i1 EXCEPT !.remove = Append(@, fn)]
              ELSE i1
        i3 == _apply_namespace_overrides(fn, record, i2)
    IN patch_record(fn, record, sd, i3, idx)

\* the loop over the files in the given order, stopped by an exception
RECURSIVE loop_in_order(_, _, _, _)
loop_in_order(order, idx, instr, sd) ==
    IF order = <<>> THEN [index |-> idx, instructions |-> instr, exc |-> ""]
    ELSE LET r == CHOOSE out \in {loop_body(Head(order), idx, instr, sd)} : TRUE
         IN IF r.exc # "" THEN r
            ELSE loop_in_order(Tail(order), r.index, r.instructions, sd)

\* _patch_repodata(repodata, subdir) for an index that yields its items in
\* the given order: the instructions returned, with both lists sorted
_patch_repodata(idx, sd, order) ==
    LET r == CHOOSE out \in {loop_in_order(order, idx, NewInstructions, sd)} : TRUE
    IN [r.instructions EXCEPT !.remove = Sorted(@), !.revoke = Sorted(@)]

\* one iteration of "for fn, record in index.items()"; the order in which a
\* dict yields its items is the order of the loaded file, which may be any.
\* An exception of patch_record leaves _patch_repodata: nothing is returned
PatchRecord ==
    /\ pc = "patching"
    /\ \E fn \in todo :
           \E r \in {loop_body(fn, index, instructions, subdir)} :
              /\ index' = r.index
              /\ instructions' = r.instructions
              /\ todo' = todo \ {fn}
              /\ last' = fn
              /\ exc' = r.exc
              /\ pc' = IF r.exc # "" THEN "raised" ELSE pc
    /\ pre_index' = index
    /\ pre_instructions' = instructions
    /\ UNCHANGED <<subdir, original, os_name>>
    /\ UNCHANGED rdvars
    /\ UNCHANGED othervars

\* the instructions returned with the lists as the loop appended to them
ReturnInstructions_unsorted ==
    /\ pc = "patching"
    /\ todo = {}
    /\ pc' = "done"
    /\ UNCHANGED <<subdir, index, original, todo, instructions, last, pre_index,
                   pre_instructions, exc, os_name>>
    /\ UNCHANGED rdvars
    /\ UNCHANGED othervars

\* the loop is over: both lists are sorted and the instructions returned
ReturnInstructions ==
    /\ pc = "patching"
    /\ todo = {}
    /\ instructions' = [instructions EXCEPT !.remove = Sorted(@), !.revoke = Sorted(@)]
    /\ pc' = "done"
    /\ UNCHANGED <<subdir, index, original, todo, last, pre_index, pre_instructions, exc,
                   os_name>>
    /\ UNCHANGED rdvars
    /\ UNCHANGED othervars

Next == PatchRecord \/ ReturnInstructions

Spec == Init /\ [][Next]_vars

\* _patch_repodata entered with an index that holds a single record, on a
\* posix host or on Windows
InitRecord ==
    /\ IdleReplaceDep
    /\ IdleHotfixes /\ IdleRename /\ IdlePackageTypes /\ IdleNumpy2
    /\ subdir \in RecordSubdirs
    /\ index \in UNION {IndexesOver({fn}, subdir) : fn \in FileNames \cup MoreFileNames}
    /\ original = index
    /\ todo = DOMAIN index
    /\ instructions = NewInstructions
    /\ last = None
    /\ pre_index = index
    /\ pre_instructions = NewInstructions
    /\ exc = ""
    /\ os_name \in {"posix", "nt"}
    /\ pc = "patching"

SpecRecord == InitRecord /\ [][Next]_vars

-----------------------------------------------------------------------------
(* Properties of _patch_repodata, checked under Spec *)

\* the value an entry lists for key is not the value the record had when loaded
EntryDiffers(entry, loaded, key) ==
    IF IsNone(loaded, key)
    THEN ~IsNone(entry, key)
    ELSE IsNone(entry, key) \/ entry[key] # loaded[key]

\* C10: after _patch_repodata has processed an index, every filename that is
\* a key of instructions["packages"] lists at least one key whose value
\* differs from the value that key had in the original record.
C10_EntriesDifferClaim ==
    pc = "done" =>
        \A fn \in DOMAIN instructions.packages :
            \E key \in DOMAIN instructions.packages[fn] :
                EntryDiffers(instructions.packages[fn], original[fn], key)

-----------------------------------------------------------------------------
(* Properties of one iteration of the loop: last is the file it patched,    *)
(* pre_index and pre_instructions are the index and the instructions as it  *)
(* found them                                                               *)

\* the latest iteration patched a record and raised nothing
Patched == last # None /\ exc = ""

\* the entry lists key with the value the record has for it, null if it has none
Recorded(entry, record, key) ==
    /\ key \in DOMAIN entry
    /\ IF IsNone(record, key)
       THEN key \in StrKeys /\ entry[key] = None
       ELSE ~IsNone(entry, key) /\ entry[key] = record[key]

\* C11: for each tracked key whose value after patch_record_in_place differs
\* from its value before (a missing key reading as null), patch_record sets
\* instructions["packages"][fn][key] to the value after; an edit made in
\* place to the depends or constrains list is such a difference.
C11_ChangesRecorded ==
    Patched =>
        \A key \in {"app_entry", "app_type", "constrains", "depends", "features",
                     "namespace", "license_family", "subdir", "track_features", "type"} :
            GetDiffers(index[last], pre_index[last], key)
                => Recorded(Entry(instructions, last), index[last], key)

C11_Witness ==
    /\ Patched
    /\ In("kealib >=1.4.7,<1.5.0a0", pre_index[last].depends)
    /\ In("kealib >=1.4.7,<1.4.8.0a0", index[last].depends)
    /\ Entry(instructions, last).depends = index[last].depends

\* the numpy-base dependencies of a record, in the order of its depends
BaseDeps(record) == SelectSeq(record.depends, LAMBDA d : StartsWith(d, "numpy-base"))

\* the first numpy-base dependency of the record is 'numpy-base <version> <build>'
PinsBase(record) ==
    /\ BaseDeps(record) # <<>>
    /\ Len(Split(BaseDeps(record)[1])) = 3
    /\ Split(BaseDeps(record)[1])[1] = "numpy-base"

\* the file '<name>-<version>-<build>.tar.bz2' of the pinned numpy-base package
BaseFile(record) ==
    LET t == Split(BaseDeps(record)[1])
    IN t[1] \o "-" \o t[2] \o "-" \o t[3] \o ".tar.bz2"

\* the latest iteration patched a numpy record that pins a base file which
\* the index holds without a constrains field
PatchedPinned ==
    /\ Patched
    /\ index[last].name = "numpy"
    /\ PinsBase(index[last])
    /\ BaseFile(index[last]) \in DOMAIN pre_index
    /\ "constrains" \notin DOMAIN pre_index[BaseFile(index[last])]

\* C12: for a numpy record whose first numpy-base dependency is pinned as
\* 'numpy-base <version> <build>' and whose base file is in the index without
\* a constrains field, the constraint written to the base file's entry is
\* exactly ['<name> <version>'] when the base file is in NP_BASE_LOOSE_PIN
\* for the subdir, and exactly ['<name> <version> <build>'] otherwise.
C12_BaseConstraint ==
    PatchedPinned =>
        LET record == index[last]
            entry == Entry(instructions, BaseFile(record))
        IN /\ "constrains" \in DOMAIN entry
           /\ entry.constrains =
                 IF BaseFile(record) \in NP_BASE_LOOSE_PIN[subdir]
                 THEN <<record.name \o " " \o record.version>>
                 ELSE <<record.name \o " " \o record.version \o " " \o record.build>>

C12_Witness ==
    /\ PatchedPinned
    /\ BaseFile(index[last]) \in NP_BASE_LOOSE_PIN[subdir]
    /\ Entry(instructions, BaseFile(index[last])).constrains = <<"numpy 1.11.3">>

\* the entries of every file but fn are the same in both instructions
SameEntriesBut(fn, instr, before) ==
    /\ DOMAIN instr.packages \ {fn} = DOMAIN before.packages \ {fn}
    /\ \A g \in DOMAIN instr.packages \ {fn} : instr.packages[g] = before.packages[g]

\* the record has no numpy-base dependency
NoBaseDep(record) == BaseDeps(record) = <<>>

\* its first numpy-base dependency is not a name, a version and a build
NotThreeTokens(record) ==
    BaseDeps(record) # <<>> /\ Len(Split(BaseDeps(record)[1])) # 3

\* the base file it pins is not in the index
BaseMissing(record) == PinsBase(record) /\ BaseFile(record) \notin DOMAIN pre_index

\* the base record in the index has a constrains field
BaseConstrained(record) ==
    /\ PinsBase(record)
    /\ BaseFile(record) \in DOMAIN pre_index
    /\ "constrains" \in DOMAIN pre_index[BaseFile(record)]

\* C13: _fix_numpy_base_constrains raises nothing and leaves the
\* instructions without a new entry or key when the record has no numpy-base
\* dependency, when that dependency is not a three-token pin, when the base
\* file is not in the index, or when the base record has a constrains field.
C13_SilentNoOp ==
    (/\ last # None
     /\ "name" \in DOMAIN index[last] /\ index[last].name = "numpy"
     /\ \/ NoBaseDep(index[last])
        \/ NotThreeTokens(index[last])
        \/ BaseMissing(index[last])
        \/ BaseConstrained(index[last]))
        => /\ exc = ""
           /\ SameEntriesBut(last, instructions, pre_instructions)

C13_Witness ==
    /\ Patched
    /\ index[last].name = "numpy"
    /\ BaseConstrained(index[last])
    /\ BaseFile(index[last]) \notin DOMAIN instructions.packages

\* C15: processing one record fn leaves every other record of the index
\* unchanged and changes instruction entries only for fn itself and, when fn
\* is a numpy record, the constrains key of the entry of the numpy-base file
\* it pins; no other file's entry and no other key of the base entry is created
\* or modified.
C15_Frame ==
    last # None =>
        LET record == index[last]
            base == IF "name" \in DOMAIN record /\ record.name = "numpy" /\ PinsBase(record)
                    THEN {BaseFile(record)} ELSE {}
            files == (DOMAIN instructions.packages \cup DOMAIN pre_instructions.packages)
                        \ {last}
        IN /\ DOMAIN index = DOMAIN pre_index
           /\ \A g \in DOMAIN index \ {last} : index[g] = pre_index[g]
           /\ \A g \in files \ base :
                 /\ g \in DOMAIN instructions.packages
                 /\ g \in DOMAIN pre_instructions.packages
                 /\ instructions.packages[g] = pre_instructions.packages[g]
           /\ \A g \in files \cap base :
                 LET after == Entry(instructions, g)
                     before == Entry(pre_instructions, g)
                 IN /\ DOMAIN after \ {"constrains"} = DOMAIN before \ {"constrains"}
                    /\ \A key \in DOMAIN after \ {"constrains"} : after[key] = before[key]

C15_Witness ==
    /\ PatchedPinned
    /\ "constrains" \in DOMAIN Entry(instructions, BaseFile(index[last]))
    /\ \E g \in DOMAIN pre_instructions.packages : g \notin {last, BaseFile(index[last])}
    /\ last \in DOMAIN instructions.packages

\* the pieces of a pattern between its '*' characters
Pieces(pat) ==
    LET cuts == {0, Len(pat) + 1} \cup {i \in 1..Len(pat) : SubSeq(pat, i, i) = "*"}
        cut(k) == CHOOSE c \in cuts : Cardinality({d \in cuts : d < c}) = k - 1
    IN [k \in 1..(Cardinality(cuts) - 1) |-> Slice(pat, cut(k) + 1, cut(k + 1) - 1)]

\* name ends with the last piece and holds the pieces before it in order,
\* without overlap
RECURSIVE HoldsInOrder(_, _)
HoldsInOrder(name, pieces) ==
    IF Len(pieces) = 1
    THEN /\ Len(name) >= Len(pieces[1])
         /\ Slice(name, Len(name) - Len(pieces[1]) + 1, Len(name)) = pieces[1]
    ELSE \E i \in 1..(Len(name) - Len(pieces[1]) + 1) :
            /\ Slice(name, i, i + Len(pieces[1]) - 1) = pieces[1]
            /\ HoldsInOrder(Slice(name, i + Len(pieces[1]), Len(name)), Tail(pieces))

\* name matches a pattern whose only wildcard is '*', letter case included
GlobMatch(name, pat) ==
    LET pieces == Pieces(pat)
    IN IF Len(pieces) = 1 THEN name = pat
       ELSE /\ Len(name) >= Len(pieces[1])
            /\ Slice(name, 1, Len(pieces[1])) = pieces[1]
            /\ HoldsInOrder(Slice(name, Len(pieces[1]) + 1, Len(name)), Tail(pieces))

\* the patterns that decide for a platform: its own list, if the table has
\* one, and the list of "any"
Patterns(table, sd) == (IF sd \in DOMAIN table THEN table[sd] ELSE {}) \cup table["any"]

Listed(list, fn) == \E i \in DOMAIN list : list[i] = fn

\* C16: is_revoked(fn, subdir) (is_removed likewise) is true exactly when fn
\* matches, by case-sensitive glob matching, at least one pattern of the union
\* of REVOKED[subdir] and REVOKED["any"] (REMOVALS for is_removed); a subdir
\* without a list of its own is decided by the "any" list alone.
C16_GlobUnionClaim ==
    last # None =>
        /\ is_revoked(last, subdir) <=> \E p \in Patterns(REVOKED, subdir) : GlobMatch(last, p)
        /\ is_removed(last, subdir) <=> \E p \in Patterns(REMOVALS, subdir) : GlobMatch(last, p)
        /\ Listed(instructions.revoke, last) <=> is_revoked(last, subdir)
        /\ Listed(instructions.remove, last) <=> is_removed(last, subdir)

\* the members of a list
Members(list) == {list[i] : i \in DOMAIN list}

\* each member once, in ascending order
Ascending(list) == \A i \in 1..(Len(list) - 1) : StrLt(list[i], list[i + 1])

\* C17: in the instructions _patch_repodata returns, revoke holds exactly the
\* filenames of the index for which is_revoked holds and remove exactly those
\* for which is_removed holds, each filename once, each list in ascending
\* order; a revoked or removed record is patched all the same.
C17_Lists ==
    pc = "done" =>
        /\ Members(instructions.revoke) = {fn \in DOMAIN index : is_revoked(fn, subdir)}
        /\ Members(instructions.remove) = {fn \in DOMAIN index : is_removed(fn, subdir)}
        /\ Ascending(instructions.revoke)
        /\ Ascending(instructions.remove)
        /\ \A fn \in Members(instructions.revoke) \cup Members(instructions.remove) :
              index[fn] = patch_record_in_place(fn, original[fn], subdir).record

C17_Witness ==
    /\ pc = "done"
    /\ Len(instructions.revoke) >= 2
    /\ \E fn \in Members(instructions.remove) :
          /\ index[fn] # original[fn]
          /\ "depends" \in DOMAIN Entry(instructions, fn)

\* the record of the latest iteration, as loaded, is an anaconda record of
\* version 5.3.0 or 5.3.1
AnacondaRecord ==
    /\ last # None
    /\ {"name", "version", "depends"} \subseteq DOMAIN original[last]
    /\ original[last].name = "anaconda"
    /\ original[last].version \in {"5.3.0", "5.3.1"}

\* the mkl dependencies of a list whose version contains "2019"
Mkl2019(depends) ==
    SelectSeq(depends, LAMBDA d :
        /\ Len(Split(d)) >= 2
        /\ Split(d)[1] = "mkl"
        /\ Contains(Split(d)[2], "2019"))

\* C18: for an anaconda record of version 5.3.0 or 5.3.1, more than one mkl
\* dependency whose version contains 2019 makes patch_record_in_place raise and
\* no patch entry is produced; exactly one is removed and mkl 2018.0.3 1 is
\* added; with none the rule changes nothing.
C18_MklRuleClaim ==
    AnacondaRecord =>
        LET depends == original[last].depends
            mkl_version == Mkl2019(depends)
        IN /\ Len(mkl_version) > 1 =>
                /\ pc = "raised"
                /\ exc # ""
                /\ DOMAIN Entry(instructions, last) \subseteq {"namespace"}
           /\ Len(mkl_version) = 1 =>
                /\ exc = ""
                /\ index[last].depends =
                      Append(ListRemove(depends, mkl_version[1]), "mkl 2018.0.3 1")
           /\ Len(mkl_version) = 0 =>
                /\ exc = ""
                /\ index[last].depends = depends

\* the record of the latest iteration, as loaded, lists a dependency that
\* starts with "cudnn 7"
CudnnRecord ==
    /\ last # None
    /\ "depends" \in DOMAIN original[last]
    /\ \E i \in DOMAIN original[last].depends :
          StartsWith(original[last].depends[i], "cudnn 7")

\* the range the rule gives a cudnn dependency by its own shape and the
\* cudatoolkit dependency of the list, or the error it ends with
RangeFor(dep, depends, sd) ==
    correct_cudnn_depends(dep, LastStartingWith(depends, "cudatoolkit"), sd)

\* C19: for a record with a dependency starting with "cudnn 7", after the
\* CUDA rule either every such dependency has been replaced by the bounded
\* range of its own shape (and, for cudnn 7* and 7.*, of the cudatoolkit
\* dependency), or an error is raised and depends is unchanged; off Windows
\* an unrecognised shape or a missing cudatoolkit dependency raises.
C19_CudnnRuleClaim ==
    CudnnRecord =>
        LET depends == original[last].depends
            after == index[last].depends
            cudnn7 == {i \in DOMAIN depends : StartsWith(depends[i], "cudnn 7")}
        IN /\ \/ /\ exc = ""
                 /\ Len(after) = Len(depends)
                 /\ \A i \in cudnn7 :
                       /\ RangeFor(depends[i], depends, subdir) \notin CudnnErrors
                       /\ after[i] = RangeFor(depends[i], depends, subdir)
              \/ /\ exc # ""
                 /\ after = depends
           /\ (/\ ~StartsWith(subdir, "win-")
               /\ \E i \in cudnn7 : RangeFor(depends[i], depends, subdir) \in CudnnErrors)
                  => exc # ""

\* the exceptions patch_record_in_place raises by design
DocumentedErrors == {MultipleMkl, "Exception: unknown cudnn depedency"}

\* C20: patch_record_in_place raises no error for a record whose fields are
\* missing or malformed or that matches no rule; the only exceptions it can
\* raise are the multiple mkl entries and the unknown cudnn dependency ones.
C20_OnlyDocumentedErrorsClaim ==
    last # None => (exc = "" \/ exc \in DocumentedErrors)

-----------------------------------------------------------------------------
(* Properties of the instructions _patch_repodata returns *)

\* the elements of a finite set of str in ascending order
RECURSIVE SeqOf(_)
SeqOf(S) ==
    IF S = {} THEN <<>>
    ELSE LET x == CHOOSE x \in S : \A y \in S : ~StrLt(y, x)
         IN <<x>> \o SeqOf(S \ {x})

\* C14: the instructions _patch_repodata returns do not depend on the order
\* in which the records are iterated: whatever order the loop took, the
\* packages mapping, the revoke list and the remove list are those of the
\* run that takes the files in ascending order.
C14_OrderIndependentClaim ==
    pc = "done" =>
        LET ref == _patch_repodata(original, subdir, SeqOf(DOMAIN original))
        IN /\ instructions.packages = ref.packages
           /\ instructions.revoke = ref.revoke
           /\ instructions.remove = ref.remove


-----------------------------------------------------------------------------
(* Frame and return value of replace_dep, checked under SpecReplaceDep *)

\* the latest call returned, it did not raise
Returned == Called /\ rd_ret # "TypeError"

\* C29: after a call that does not raise, every element of depends that is
\* neither an element of old nor equal to new occurs as often as before and
\* in the same relative order, and new occurs at most once more than before.
C29_OthersUntouched ==
    Returned =>
        /\ Without(rd_depends, OldSet \cup {rd_new}) = Without(rd_pre, OldSet \cup {rd_new})
        /\ rd_new # None => Count(rd_depends, rd_new) <= Count(rd_pre, rd_new) + 1

C29_Witness ==
    /\ Returned
    /\ rd_ret = "~"
    /\ ~IsSorted(rd_pre)
    /\ Len(Without(rd_pre, OldSet \cup {rd_new})) >= 2
    /\ Count(rd_depends, rd_new) = Count(rd_pre, rd_new) + 1

\* C30: replace_dep returns '=' if and only if depends is element for element
\* what it was before the call.
C30_EqualsIffUnchangedClaim ==
    Returned => (rd_ret = "=" <=> rd_depends = rd_pre)

-----------------------------------------------------------------------------
(* Properties of single rules of patch_record_in_place, checked under SpecRecord *)

\* the record of the latest iteration, as loaded, has a features field
FeaturesRecord ==
    /\ last # None
    /\ {"features", "depends"} \subseteq DOMAIN original[last]

\* " ".join(tokens)
RECURSIVE Join(_)
Join(tokens) ==
    IF tokens = <<>> THEN ""
    ELSE IF Len(tokens) = 1 THEN tokens[1]
    ELSE tokens[1] \o " " \o Join(Tail(tokens))

\* the features a value names
Features(f) == IF f = None THEN <<>> ELSE Split(f)

\* C26: for a record with a features field the nomkl rule removes the nomkl
\* feature without error: features that is exactly nomkl becomes null, nomkl
\* among other features is removed and the others are kept, in both cases
\* blas * openblas is appended to depends unless a dependency starting with
\* "blas " is there; a value that does not mention nomkl is left unchanged.
C26_NomklRuleClaim ==
    FeaturesRecord =>
        LET record == original[last]
            r == rule_nomkl(record)
            others == SelectSeq(Features(record.features), LAMBDA f : f # "nomkl")
            blas == IF \E i \in DOMAIN record.depends : StartsWith(record.depends[i], "blas ")
                    THEN record.depends
                    ELSE Append(record.depends, "blas * openblas")
        IN /\ r.exc = ""
           /\ IF record.features = "nomkl"
              THEN r.record = [record EXCEPT !.features = None, !.depends = blas]
              ELSE IF In("nomkl", Features(record.features))
              THEN r.record = [record EXCEPT !.features = Join(others), !.depends = blas]
              ELSE r.record = record
           /\ (exc = "" /\ ~StartsWith(subdir, "win-")) =>
                 /\ index[last].features = r.record.features
                 /\ \A i \in DOMAIN r.record.depends : In(r.record.depends[i], index[last].depends)

\* the record of the latest iteration is the one that lists compiler runtimes
\* and was patched on a linux platform
RuntimeRecord ==
    /\ last = "libopenblas-0.3.3-h5a2b251_3.tar.bz2"
    /\ StartsWith(subdir, "linux-")
    /\ exc = ""

\* the version a dependency of the shape "name version", "name >=version" or
\* "name version.*" gives as lower bound, "" for any other shape
LowerBound(dep) ==
    LET tokens == Split(dep)
        v1 == IF StartsWith(tokens[2], ">=") THEN Slice(tokens[2], 3, Len(tokens[2]))
              ELSE tokens[2]
        v2 == IF Len(v1) > 2 /\ Slice(v1, Len(v1) - 1, Len(v1)) = ".*"
              THEN Slice(v1, 1, Len(v1) - 2) ELSE v1
    IN IF Len(tokens) = 2 /\ v2 # "" /\ RunLen(v2) = Len(v2) /\ IsDigit(SubSeq(v2, 1, 1))
          /\ IsDigit(SubSeq(v2, Len(v2), Len(v2)))
       THEN v2 ELSE ""

\* the number a str of digits stands for
RECURSIVE ToNat(_, _)
ToNat(s, acc) ==
    IF s = "" \/ ~IsDigit(SubSeq(s, 1, 1)) THEN acc
    ELSE ToNat(Tail(s), 10 * acc + (Ord(Head(s)) - Ord("0")))

\* the major version of a lower bound
Major(v) == ToNat(v, 0)

\* C27: on linux a libgfortran-ng dependency gets the upper bound ,<8.0a0
\* exactly when the major version of its lower bound is below 8, whatever the
\* number of digits of the major version; libgcc-ng and libstdcxx-ng
\* dependencies get a >= lower bound and never an upper bound; dependencies
\* on other packages are untouched.
C27_RuntimeBoundsClaim ==
    RuntimeRecord =>
        LET depends == original[last].depends
            after == index[last].depends
        IN /\ Len(after) = Len(depends)
           /\ \A i \in DOMAIN depends :
                LET name == Split(depends[i])[1]
                    v == LowerBound(depends[i])
                IN IF name \notin LINUX_RUNTIME_DEPS THEN after[i] = depends[i]
                   ELSE IF v = "" THEN ~Contains(after[i], ",<8.0a0") \/ after[i] = depends[i]
                   ELSE IF name = "libgfortran-ng" /\ Major(v) < 8
                        THEN after[i] = name \o " >=" \o v \o ",<8.0a0"
                        ELSE after[i] = name \o " >=" \o v

\* the record of the latest iteration, as loaded, is one a namespace rule
\* applies to: its name has a namespace override or it is conda-env
NamespaceRecord ==
    /\ last # None
    /\ {"name", "depends"} \subseteq DOMAIN original[last]
    /\ original[last].name \in DOMAIN namespace_overrides \cup {"conda-env"}

\* some dependency of the list starts with "python"
ListsPython(depends) == \E i \in DOMAIN depends : StartsWith(depends[i], "python")

-----------------------------------------------------------------------------
(* do_hotfixes: the driver that loads the repodata of every platform and    *)
(* writes the patch instructions of each                                    *)

\* the platforms of SUBDIRS the driver goes through, in the order of SUBDIRS
SUBDIRS == <<"linux-64", "linux-ppc64le", "win-64">>

Platforms == {SUBDIRS[i] : i \in 1..Len(SUBDIRS)}

\* the files of the indexes the driver is run on
HotfixFileNames ==
    {"numba-0.46.0-py38h962f231_0.tar.bz2", "python-dateutil-2.8.0-py37_0.tar.bz2"}

\* the indexes of platform sd the driver is run on
HotfixIndexes(sd) == UNION {IndexesOver(fs, sd) : fs \in SUBSET HotfixFileNames}

\* do_hotfixes(base_dir) entered: the channel serves an index for every
\* platform, and base_dir holds the repodata_from_packages.json of some
\* platforms, saved there by an earlier run
InitHotfixes ==
    /\ IdleReplaceDep /\ IdleRename /\ IdlePackageTypes /\ IdleNumpy2
    /\ IdlePatch
    /\ step = 1
    /\ pos = 1
    /\ repodatas = <<>>
    /\ remote \in {f \in [Platforms -> UNION {HotfixIndexes(sd) : sd \in Platforms}] :
                      \A sd \in Platforms : f[sd] \in HotfixIndexes(sd)}
    /\ repodata_files \in {[sd \in S |-> remote[sd]] : S \in SUBSET Platforms}
    /\ patch_files = <<>>
    /\ writes = <<>>

\* step 1 for a platform whose repodata_from_packages.json is a file:
\* the file is loaded
LoadRepodata ==
    /\ step = 1
    /\ pc = "idle"
    /\ SUBDIRS[pos] \in DOMAIN repodata_files
    /\ repodatas' = (SUBDIRS[pos] :> repodata_files[SUBDIRS[pos]]) @@ repodatas
    /\ pos' = IF pos < Len(SUBDIRS) THEN pos + 1 ELSE 1
    /\ step' = IF pos < Len(SUBDIRS) THEN 1 ELSE 2
    /\ UNCHANGED <<remote, repodata_files, patch_files, writes>>
    /\ UNCHANGED <<rdvars, prvars, rnvars, ptvars, npvars>>

\* step 1 for a platform without the file: the repodata is fetched from the
\* channel and saved as it came
FetchRepodata ==
    /\ step = 1
    /\ pc = "idle"
    /\ SUBDIRS[pos] \notin DOMAIN repodata_files
    /\ repodatas' = (SUBDIRS[pos] :> remote[SUBDIRS[pos]]) @@ repodatas
    /\ repodata_files' = (SUBDIRS[pos] :> remote[SUBDIRS[pos]]) @@ repodata_files
    /\ writes' = Append(writes, [file |-> "repodata_from_packages.json",
                                 subdir |-> SUBDIRS[pos]])
    /\ pos' = IF pos < Len(SUBDIRS) THEN pos + 1 ELSE 1
    /\ step' = IF pos < Len(SUBDIRS) THEN 1 ELSE 2
    /\ UNCHANGED <<remote, patch_files>>
    /\ UNCHANGED <<rdvars, prvars, rnvars, ptvars, npvars>>

\* step 1 for a platform without the file when the request fails:
\* requests.get or response.raise_for_status() raises and do_hotfixes ends
FetchFails ==
    /\ step = 1
    /\ pc = "idle"
    /\ SUBDIRS[pos] \notin DOMAIN repodata_files
    /\ exc' = "HTTPError"
    /\ pc' = "raised"
    /\ UNCHANGED <<subdir, index, original, todo, instructions, last, pre_index,
                   pre_instructions, os_name>>
    /\ UNCHANGED <<hfvars, rdvars, rnvars, ptvars, npvars>>

\* step 2 for a platform, with the patch instructions file opened for
\* writing before _patch_repodata is called
EnterPatchRepodata_open_first ==
    /\ step = 2
    /\ pc = "idle"
    /\ subdir' = SUBDIRS[pos]
    /\ index' = repodatas[SUBDIRS[pos]]
    /\ original' = repodatas[SUBDIRS[pos]]
    /\ todo' = DOMAIN repodatas[SUBDIRS[pos]]
    /\ instructions' = NewInstructions
    /\ pre_index' = repodatas[SUBDIRS[pos]]
    /\ pre_instructions' = NewInstructions
    /\ pc' = "patching"
    /\ patch_files' = (SUBDIRS[pos] :> <<>>) @@ patch_files
    /\ writes' = Append(writes, [file |-> "patch_instructions.json",
                                 subdir |-> SUBDIRS[pos]])
    /\ UNCHANGED <<last, exc, os_name>>
    /\ UNCHANGED <<step, pos, repodatas, remote, repodata_files>>
    /\ UNCHANGED <<rdvars, rnvars, ptvars, npvars>>

\* step 2 for a platform: _patch_repodata(repodatas[subdir], subdir) is
\* entered, index = repodata["packages"] and the instructions are new
EnterPatchRepodata ==
    /\ step = 2
    /\ pc = "idle"
    /\ subdir' = SUBDIRS[pos]
    /\ index' = repodatas[SUBDIRS[pos]]
    /\ original' = repodatas[SUBDIRS[pos]]
    /\ todo' = DOMAIN repodatas[SUBDIRS[pos]]
    /\ instructions' = NewInstructions
    /\ pre_index' = repodatas[SUBDIRS[pos]]
    /\ pre_instructions' = NewInstructions
    /\ pc' = "patching"
    /\ UNCHANGED <<last, exc, os_name>>
    /\ UNCHANGED <<hfvars, rdvars, rnvars, ptvars, npvars>>

\* step 2 with the patched index saved next to the instructions
WritePatchInstructions_persist ==
    /\ step = 2
    /\ pc = "done"
    /\ patch_files' = (subdir :> instructions) @@ patch_files
    /\ repodata_files' = (subdir :> index) @@ repodata_files
    /\ writes' = Append(Append(writes, [file |-> "patch_instructions.json",
                                        subdir |-> subdir]),
                        [file |-> "repodata_from_packages.json", subdir |-> subdir])
    /\ repodatas' = (subdir :> index) @@ repodatas
    /\ pos' = IF pos < Len(SUBDIRS) THEN pos + 1 ELSE 1
    /\ step' = IF pos < Len(SUBDIRS) THEN 2 ELSE 3
    /\ pc' = "idle"
    /\ UNCHANGED <<subdir, index, original, todo, instructions, last, pre_index,
                   pre_instructions, exc, os_name>>
    /\ UNCHANGED <<remote>>
    /\ UNCHANGED <<rdvars, rnvars, ptvars, npvars>>

\* step 2 once _patch_repodata has returned: the instructions are written to
\* the patch_instructions.json of the platform.  repodatas[subdir] is the
\* object _patch_repodata patched in place; it stays in memory
WritePatchInstructions ==
    /\ step = 2
    /\ pc = "done"
    /\ patch_files' = (subdir :> instructions) @@ patch_files
    /\ writes' = Append(writes, [file |-> "patch_instructions.json", subdir |-> subdir])
    /\ repodatas' = (subdir :> index) @@ repodatas
    /\ pos' = IF pos < Len(SUBDIRS) THEN pos + 1 ELSE 1
    /\ step' = IF pos < Len(SUBDIRS) THEN 2 ELSE 3
    /\ pc' = "idle"
    /\ UNCHANGED <<subdir, index, original, todo, instructions, last, pre_index,
                   pre_instructions, exc, os_name>>
    /\ UNCHANGED <<remote, repodata_files>>
    /\ UNCHANGED <<rdvars, rnvars, ptvars, npvars>>

NextHotfixes ==
    \/ LoadRepodata
    \/ FetchRepodata
    \/ FetchFails
    \/ EnterPatchRepodata
    \/ PatchRecord
    \/ ReturnInstructions
    \/ WritePatchInstructions

SpecHotfixes == InitHotfixes /\ [][NextHotfixes]_vars

-----------------------------------------------------------------------------
(* Properties of do_hotfixes, checked under SpecHotfixes *)

\* the number of times do_hotfixes has written the given file of platform sd
Written(file, sd) ==
    Cardinality({i \in 1..Len(writes) : writes[i].file = file /\ writes[i].subdir = sd})

\* position of platform sd in SUBDIRS
PosOf(sd) == CHOOSE i \in 1..Len(SUBDIRS) : SUBDIRS[i] = sd

\* a step that writes a patch_instructions.json writes the one of the
\* platform whose records _patch_repodata has all processed without error
PatchWrittenAfterLoop ==
    patch_files' # patch_files =>
        /\ pc = "done" /\ todo = {} /\ exc = ""
        /\ DOMAIN index = DOMAIN repodatas[subdir]
        /\ patch_files' = (subdir :> instructions) @@ patch_files

\* C21: the patch_instructions file of a platform is written only after
\* _patch_repodata has processed every record of that platform without
\* error, and at most once per platform; if any record raises, the run stops
\* with the exception surfaced and no patch_instructions file is written for
\* that platform or any later platform in SUBDIRS.
C21_PatchWrittenAfterPlatform ==
    /\ [](\A sd \in Platforms : Written("patch_instructions.json", sd) <= 1)
    /\ [](\A sd \in Platforms :
             sd \in DOMAIN patch_files <=> Written("patch_instructions.json", sd) = 1)
    /\ [](pc = "raised" =>
             /\ exc # ""
             /\ \A sd \in DOMAIN patch_files : step = 2 /\ PosOf(sd) < pos)
    /\ [][pc # "raised" /\ PatchWrittenAfterLoop]_vars

\* a record of the second platform has raised after the patch instructions
\* of the first platform were written
C21_Witness ==
    /\ pc = "raised"
    /\ step = 2
    /\ pos = 2
    /\ last # None
    /\ DOMAIN patch_files = {SUBDIRS[1]}

\* a step that writes a repodata_from_packages.json is taken in step 1,
\* before any record is patched, for a platform whose file did not exist,
\* and writes what the channel served
RepodataWrittenAsFetched ==
    repodata_files' # repodata_files =>
        /\ step = 1
        /\ last = None
        /\ SUBDIRS[pos] \notin DOMAIN repodata_files
        /\ repodata_files' = (SUBDIRS[pos] :> remote[SUBDIRS[pos]]) @@ repodata_files

\* C22: do_hotfixes never persists a patched index:
\* repodata_from_packages.json of a platform is written only when it did not
\* exist, with the content exactly as fetched, and all such writes happen
\* before the first record of any platform is patched; once patching has
\* begun only patch_instructions.json files are written.
C22_IndexNeverPersisted ==
    /\ [](\A sd \in DOMAIN repodata_files : repodata_files[sd] = remote[sd])
    /\ [](\A i \in 1..Len(writes) : \A j \in 1..Len(writes) :
             (writes[i].file = "patch_instructions.json" /\ i < j)
                 => writes[j].file = "patch_instructions.json")
    /\ [][RepodataWrittenAsFetched]_vars
    /\ [][(step = 2 /\ writes' # writes)
              => writes' = Append(writes, [file |-> "patch_instructions.json",
                                           subdir |-> subdir])]_vars

\* the run has ended, the repodata of a platform was fetched and saved, and
\* the index patched in memory differs from the file saved
C22_Witness ==
    /\ step = 3
    /\ \E sd \in Platforms :
          /\ Written("repodata_from_packages.json", sd) = 1
          /\ sd \in DOMAIN patch_files
          /\ repodatas[sd] # repodata_files[sd]

-----------------------------------------------------------------------------
(* rename_dependency, the helper _patch_repodata defines in pro.py and r.py *)

\* s.split(" "): the pieces of s between single blanks, empty pieces included
RECURSIVE split_blank(_, _, _)
split_blank(s, cur, acc) ==
    IF s = "" THEN Append(acc, cur)
    ELSE IF Head(s) = " "
         THEN split_blank(Tail(s), "", Append(acc, cur))
         ELSE split_blank(Tail(s), cur \o Head(s), acc)

\* next((q for q, dep in enumerate(depends) if dep.split(' ')[0] == old_name),
\* None): the index, counted from 0, of the first dependency named old_name,
\* -1 standing for None
dep_idx(depends, old_name) ==
    LET hits == {q \in 1..Len(depends) : split_blank(depends[q], "", <<>>)[1] = old_name}
    IN IF hits = {} THEN -1
       ELSE (CHOOSE q \in hits : \A h \in hits : q <= h) - 1

\* rename_dependency(fn, record, old_name, new_name): record["depends"] and
\* instructions["packages"][fn] as the call leaves them.  "if dep_idx:" is
\* false for None and for 0
rename_dependency(depends, old_name, new_name, entry) ==
    LET idx == dep_idx(depends, old_name)
    IN IF idx # -1 /\ idx # 0
       THEN LET parts == split_blank(depends[idx + 1], "", <<>>)
                remainder == IF Len(parts) > 1 THEN " " \o Join(Tail(parts)) ELSE ""
                renamed == [depends EXCEPT ![idx + 1] = new_name \o remainder]
            IN [depends |-> renamed, entry |-> SetKey(entry, "depends", renamed)]
       ELSE [depends |-> depends, entry |-> entry]

\* dependency specifiers of the records of the R channel
RenameDeps == {"r-base 3.5.1", "r-base", "mro-base 3.5.1 0", "r 3.5.1 r351_0", "r-basement 1.0"}

\* package names given as old_name and new_name
RenameNames == {"r-base", "mro-base", "r", "_r-mutex"}

\* rename_dependency about to be called on a record
InitRename ==
    /\ IdleReplaceDep /\ IdlePatch /\ IdleHotfixes /\ IdlePackageTypes /\ IdleNumpy2
    /\ rn_depends \in SeqsUpTo(RenameDeps, MaxDepends)
    /\ rn_old_name \in RenameNames
    /\ rn_new_name \in RenameNames
    /\ rn_entry = <<>>
    /\ rn_pre = rn_depends
    /\ rn_calls = 0

\* the call rename_dependency(fn, record, old_name, new_name)
CallRenameDependency ==
    /\ rn_calls = 0
    /\ LET r == rename_dependency(rn_depends, rn_old_name, rn_new_name, rn_entry)
       IN /\ rn_depends' = r.depends
          /\ rn_entry' = r.entry
    /\ rn_pre' = rn_depends
    /\ rn_calls' = 1
    /\ UNCHANGED <<rn_old_name, rn_new_name>>
    /\ UNCHANGED <<rdvars, prvars, hfvars, ptvars, npvars>>

NextRename == CallRenameDependency

SpecRename == InitRename /\ [][NextRename]_vars

-----------------------------------------------------------------------------
(* Properties of rename_dependency, checked under SpecRename *)

\* the position of the first blank of dep, 0 when it has none
FirstBlank(dep) ==
    IF \E p \in 1..Len(dep) : SubSeq(dep, p, p) = " "
    THEN CHOOSE p \in 1..Len(dep) :
             SubSeq(dep, p, p) = " " /\ \A k \in 1..(p - 1) : SubSeq(dep, k, k) # " "
    ELSE 0

\* the name token of a specifier and what follows it
NameOf(dep) == IF FirstBlank(dep) = 0 THEN dep ELSE SubSeq(dep, 1, FirstBlank(dep) - 1)

RestOf(dep) == IF FirstBlank(dep) = 0 THEN "" ELSE SubSeq(dep, FirstBlank(dep), Len(dep))

\* the positions of the dependencies of the list that are named name
Named(depends, name) == {q \in 1..Len(depends) : NameOf(depends[q]) = name}

\* C25: rename_dependency(fn, record, old_name, new_name) in pro.py and
\* r.py renames the first dependency whose name token equals old_name
\* wherever it sits in the depends list, including list position 0, keeps
\* the rest of the specifier unchanged, and records the depends list in the
\* instructions for fn; when no dependency has that name it changes nothing.
C25_RenameFirstClaim ==
    rn_calls = 1 =>
        IF Named(rn_pre, rn_old_name) = {}
        THEN rn_depends = rn_pre /\ rn_entry = <<>>
        ELSE LET q == CHOOSE p \in Named(rn_pre, rn_old_name) :
                          \A h \in Named(rn_pre, rn_old_name) : p <= h
             IN /\ rn_depends = [rn_pre EXCEPT ![q] = rn_new_name \o RestOf(rn_pre[q])]
                /\ rn_entry = [depends |-> rn_depends]

-----------------------------------------------------------------------------
(* r.py: _combine_package_types and _separate_package_types, which move the *)
(* .conda entries into "packages" for the loop of _patch_repodata and back  *)

\* s.endswith(suffix)
EndsWith(s, suffix) ==
    Len(suffix) <= Len(s) /\ SubSeq(s, Len(s) - Len(suffix) + 1, Len(s)) = suffix

\* d restricted to the keys in keys
Restrict(d, keys) == [k \in DOMAIN d \cap keys |-> d[k]]

\* the keys of d that end in .conda
CondaKeys(d) == {k \in DOMAIN d : EndsWith(k, ".conda")}

\* _combine_package_types moving the entries before it looks at the keys of
\* "packages.conda"
_combine_package_types_update_first(repodata) ==
    IF \E artifact \in DOMAIN repodata["packages"] : EndsWith(artifact, ".conda")
    THEN [repodata |-> repodata, exc |-> "Exception: Artifact in packages ends with .conda"]
    ELSE IF "packages.conda" \notin DOMAIN repodata
    THEN [repodata |-> repodata, exc |-> "KeyError"]
    ELSE LET combined == [k \in {"packages"} |->
                             repodata["packages.conda"] @@ repodata["packages"]]
         IN IF \E artifact \in DOMAIN repodata["packages.conda"] :
                   ~EndsWith(artifact, ".conda")
            THEN [repodata |-> combined,
                  exc |-> "Exception: Artifact in packages.conda does not end in .conda"]
            ELSE [repodata |-> combined, exc |-> ""]

\* _combine_package_types(repodata): the repodata as the call leaves it and
\* the exception it raises, "" when it returns
_combine_package_types(repodata) ==
    IF \E artifact \in DOMAIN repodata["packages"] : EndsWith(artifact, ".conda")
    THEN [repodata |-> repodata, exc |-> "Exception: Artifact in packages ends with .conda"]
    ELSE IF "packages.conda" \notin DOMAIN repodata
    THEN [repodata |-> repodata, exc |-> "KeyError"]
    ELSE IF \E artifact \in DOMAIN repodata["packages.conda"] :
               ~EndsWith(artifact, ".conda")
    THEN [repodata |-> repodata,
          exc |-> "Exception: Artifact in packages.conda does not end in .conda"]
    ELSE [repodata |-> [k \in {"packages"} |->
                           repodata["packages.conda"] @@ repodata["packages"]],
          exc |-> ""]

\* d with its "packages" entries that end in .conda moved to "packages.conda"
separated(d) ==
    ("packages" :> Restrict(d["packages"], DOMAIN d["packages"] \ CondaKeys(d["packages"])))
        @@ ("packages.conda" :> Restrict(d["packages"], CondaKeys(d["packages"])))
        @@ d

\* _separate_package_types(repodata, instructions) as _patch_repodata calls
\* it, with instructions given: both dicts as the call leaves them and the
\* exception it raises
_separate_package_types(repodata, instr) ==
    IF "packages.conda" \in DOMAIN repodata
    THEN [repodata |-> repodata, instructions |-> instr,
          exc |-> "Exception: repodata already includes packages.conda"]
    ELSE IF "packages.conda" \in DOMAIN instr
    THEN [repodata |-> separated(repodata), instructions |-> instr,
          exc |-> "Exception: patch instructions already include packages.conda"]
    ELSE [repodata |-> separated(repodata), instructions |-> separated(instr), exc |-> ""]

\* the artifacts of the repodata of the R channel
Artifacts ==
    {"r-base-3.5.1-h1e0a451_1.tar.bz2", "r-base-3.5.1-h1e0a451_1.conda",
     "r-glue-1.3.0-r351h96ca727_0.tar.bz2", "r-glue-1.3.0-r351h96ca727_0.conda"}

\* the record of an artifact
ArtifactRecord(fn) ==
    IF StartsWith(fn, "r-base")
    THEN [name |-> "r-base", version |-> "3.5.1", build |-> "h1e0a451_1", fn |-> fn,
          depends |-> <<"_r-mutex 1.* anacondar_1">>]
    ELSE [name |-> "r-glue", version |-> "1.3.0", build |-> "r351h96ca727_0", fn |-> fn,
          depends |-> <<"r-base >=3.5.1,<3.5.2.0a0">>]

\* the dicts that hold the records of some artifacts
ArtifactDicts == {[fn \in fs |-> ArtifactRecord(fn)] : fs \in SUBSET Artifacts}

\* _patch_repodata of r.py entered with a repodata that has "packages", and
\* "packages.conda" or not: the instructions are new
InitPackageTypes ==
    /\ IdleReplaceDep /\ IdlePatch /\ IdleHotfixes /\ IdleRename /\ IdleNumpy2
    /\ pt_repodata \in {[k \in {"packages"} |-> p] : p \in ArtifactDicts}
                         \cup {("packages" :> p) @@ ("packages.conda" :> c) :
                                  p \in ArtifactDicts, c \in ArtifactDicts}
    /\ pt_loaded = pt_repodata
    /\ pt_instructions = NewInstructions
    /\ pt_pc = "loaded"

\* the call _combine_package_types(repodata) of _patch_repodata
CombinePackageTypes ==
    /\ pt_pc = "loaded"
    /\ LET r == _combine_package_types(pt_repodata)
       IN /\ pt_repodata' = r.repodata
          /\ pt_pc' = IF r.exc = "" THEN "combined" ELSE "raised"
    /\ UNCHANGED <<pt_instructions, pt_loaded>>
    /\ UNCHANGED <<rdvars, prvars, hfvars, rnvars, npvars>>

\* an iteration of the loop over index.items() that writes the depends of
\* the record to instructions["packages"][fn]
RecordInstruction ==
    /\ pt_pc = "combined"
    /\ \E fn \in DOMAIN pt_repodata["packages"] \ DOMAIN pt_instructions.packages :
          pt_instructions' =
              SetInstr(pt_instructions, fn, "depends", pt_repodata["packages"][fn].depends)
    /\ UNCHANGED <<pt_repodata, pt_loaded, pt_pc>>
    /\ UNCHANGED <<rdvars, prvars, hfvars, rnvars, npvars>>

\* the call _separate_package_types(repodata, instructions) that ends
\* _patch_repodata
SeparatePackageTypes ==
    /\ pt_pc = "combined"
    /\ LET r == _separate_package_types(pt_repodata, pt_instructions)
       IN /\ pt_repodata' = r.repodata
          /\ pt_instructions' = r.instructions
          /\ pt_pc' = IF r.exc = "" THEN "separated" ELSE "raised"
    /\ UNCHANGED pt_loaded
    /\ UNCHANGED <<rdvars, prvars, hfvars, rnvars, npvars>>

NextPackageTypes == CombinePackageTypes \/ RecordInstruction \/ SeparatePackageTypes

SpecPackageTypes == InitPackageTypes /\ [][NextPackageTypes]_vars

-----------------------------------------------------------------------------
(* Properties of the package type helpers, checked under SpecPackageTypes *)

\* no key of "packages" ends in .conda and every key of "packages.conda" does
Separable(repodata) ==
    /\ \A k \in DOMAIN repodata["packages"] : ~EndsWith(k, ".conda")
    /\ "packages.conda" \in DOMAIN repodata
    /\ \A k \in DOMAIN repodata["packages.conda"] : EndsWith(k, ".conda")

\* the step of _separate_package_types leaves every entry of the
\* instructions in "packages" or, when its key ends in .conda, in
\* "packages.conda", and the other keys as they are
InstructionsSplit ==
    (pt_pc = "combined" /\ pt_pc' # "combined") =>
        /\ pt_pc' = "separated"
        /\ DOMAIN pt_instructions' = DOMAIN pt_instructions \cup {"packages.conda"}
        /\ \A k \in DOMAIN pt_instructions \ {"packages"} :
               pt_instructions'[k] = pt_instructions[k]
        /\ \A fn \in DOMAIN pt_instructions.packages :
               IF EndsWith(fn, ".conda")
               THEN /\ fn \in DOMAIN pt_instructions'["packages.conda"]
                    /\ fn \notin DOMAIN pt_instructions'["packages"]
                    /\ pt_instructions'["packages.conda"][fn] = pt_instructions.packages[fn]
               ELSE /\ fn \in DOMAIN pt_instructions'["packages"]
                    /\ fn \notin DOMAIN pt_instructions'["packages.conda"]
                    /\ pt_instructions'["packages"][fn] = pt_instructions.packages[fn]
        /\ DOMAIN pt_instructions'["packages"] \cup DOMAIN pt_instructions'["packages.conda"]
               = DOMAIN pt_instructions.packages

\* C28: in r.py, for repodata in which no key of 'packages' ends in '.conda'
\* and every key of 'packages.conda' ends in '.conda', _combine_package_types
\* followed by _separate_package_types restores 'packages' and
\* 'packages.conda' to their original key sets with the same records, and
\* splits the instructions' 'packages' entries the same way; when the
\* precondition fails _combine_package_types raises before changing repodata.
C28_CombineSeparateRoundTrip ==
    /\ [](pt_pc = "separated" => pt_repodata = pt_loaded)
    /\ [](pt_pc = "raised" => ~Separable(pt_loaded) /\ pt_repodata = pt_loaded)
    /\ []((Separable(pt_loaded) /\ pt_pc # "loaded")
             => /\ pt_pc \in {"combined", "separated"}
                /\ pt_pc = "combined" =>
                       /\ DOMAIN pt_repodata = {"packages"}
                       /\ pt_repodata["packages"]
                              = pt_loaded["packages.conda"] @@ pt_loaded["packages"])
    /\ [](~Separable(pt_loaded) => pt_pc \in {"loaded", "raised"})
    /\ [][InstructionsSplit]_vars

\* both dicts of the repodata hold records, the types were combined and
\* separated again, and the instructions hold an entry of each type
C28_Witness ==
    /\ pt_pc = "separated"
    /\ pt_repodata["packages"] # <<>>
    /\ pt_repodata["packages.conda"] # <<>>
    /\ pt_instructions["packages"] # <<>>
    /\ pt_instructions["packages.conda"] # <<>>

-----------------------------------------------------------------------------
(* The numpy 2 patch generators: generate_numpy2_patch.py and numpy2.py     *)

\* numpy2_protect_dict of generate_numpy2_patch.py
numpy2_protect_dict ==
    [k \in {"pandas", "scikit-learn", "pyamg", "pyqtgraph"} |->
        CASE k = "pandas" -> "2.2.2"
          [] k = "scikit-learn" -> "1.4.2"
          [] k = "pyamg" -> "4.2.3"
          [] k = "pyqtgraph" -> "0.13.1"]

\* the length of the longest prefix of s made of digits
RECURSIVE DigitsLen(_)
DigitsLen(s) == IF s # "" /\ IsDigit(SubSeq(s, 1, 1)) THEN 1 + DigitsLen(Tail(s)) ELSE 0

\* the length of the match of \d+(\.\d+)* at the start of s
RECURSIVE VersionLen(_)
VersionLen(s) ==
    LET n == DigitsLen(s)
    IN IF Len(s) >= n + 2 /\ SubSeq(s, n + 1, n + 1) = "." /\ IsDigit(SubSeq(s, n + 2, n + 2))
       THEN n + 1 + VersionLen(SubSeq(s, n + 2, Len(s)))
       ELSE n

\* parse_version(version_str): group 1 of re.search(r'(\d+(\.\d+)*)'), the
\* match that starts at the first digit, or None
parse_version(version_str) ==
    LET digits == {i \in 1..Len(version_str) : IsDigit(SubSeq(version_str, i, i))}
    IN IF digits = {} THEN None
       ELSE LET i == CHOOSE d \in digits : \A e \in digits : d <= e
            IN SubSeq(version_str, i,
                      i + VersionLen(SubSeq(version_str, i, Len(version_str))) - 1)

\* s.split(sep) for a one-character sep
RECURSIVE split_on(_, _, _, _)
split_on(s, sep, cur, acc) ==
    IF s = "" THEN Append(acc, cur)
    ELSE IF Head(s) = sep
         THEN split_on(Tail(s), sep, "", Append(acc, cur))
         ELSE split_on(Tail(s), sep, cur \o Head(s), acc)

\* s.strip() for blanks
RECURSIVE strip(_)
strip(s) ==
    IF s = "" THEN ""
    ELSE IF SubSeq(s, 1, 1) = " " THEN strip(Tail(s))
    ELSE IF SubSeq(s, Len(s), Len(s)) = " " THEN strip(SubSeq(s, 1, Len(s) - 1))
    ELSE s

\* has_upper_bound(dependency)
has_upper_bound(dependency) ==
    LET parts == split_on(dependency, ",", "", <<>>)
    IN \E i \in 1..Len(parts) : StartsWith(strip(parts[i]), "<")

\* patch_record_with_fixed_deps(dependency, parts)
patch_record_with_fixed_deps(dependency, parts) ==
    LET version_str == parts[2]
    IN IF parse_version(version_str) # None
       THEN IF StartsWith(version_str, "==") \/ StartsWith(version_str, "<")
                  \/ IsDigit(SubSeq(version_str, 1, 1))
            THEN dependency
            ELSE IF StartsWith(version_str, ">") \/ StartsWith(version_str, ">=")
            THEN dependency \o ",<2.0a0"
            ELSE dependency \o " <2.0a0"
       ELSE dependency

\* the numbers of a version made of digits and dots
Components(version) ==
    LET parts == split_on(version, ".", "", <<>>)
    IN [i \in 1..Len(parts) |-> ToNat(parts[i], 0)]

\* VersionOrder(v) <= VersionOrder(w) for versions made of digits and dots:
\* the numbers are compared in order, a missing number counting as 0
VersionOrderLe(v, w) ==
    LET a == Components(v)
        b == Components(w)
        n == IF Len(a) > Len(b) THEN Len(a) ELSE Len(b)
        at(c, i) == IF i <= Len(c) THEN c[i] ELSE 0
    IN \/ \A i \in 1..n : at(a, i) = at(b, i)
       \/ \E i \in 1..n : /\ at(a, i) < at(b, i)
                          /\ \A k \in 1..(i - 1) : at(a, k) = at(b, k)

\* collect_proposed_change of generate_numpy2_patch.py:
\* NUMPY_2_CHANGES[subdirectory][filename] = {...}, on the dict of the subdir
collect_proposed_change(patch, filename, change_type, original_dependency, updated_dependency) ==
    (filename :> [type |-> change_type, original |-> original_dependency,
                  updated |-> updated_dependency])
        @@ patch

\* _handle_protected_dependency of generate_numpy2_patch.py
_handle_protected_dependency(parts, dependency, filename, dependency_type, patch) ==
    LET version == IF Len(parts) > 1 THEN parse_version(parts[2]) ELSE None
        protected_version == parse_version(numpy2_protect_dict[parts[1]])
    IN IF version # None /\ protected_version # None
          /\ VersionOrderLe(version, protected_version)
       THEN collect_proposed_change(patch, filename, dependency_type, dependency,
                IF Len(parts) > 1 THEN dependency \o ",<2.0a0"
                ELSE dependency \o " <2.0a0")
       ELSE patch

\* _handle_unspecified_dependency of generate_numpy2_patch.py
_handle_unspecified_dependency(parts, dependency, filename, dependency_type, patch) ==
    IF Len(parts) > 1
    THEN IF patch_record_with_fixed_deps(dependency, parts) # dependency
         THEN collect_proposed_change(patch, filename, dependency_type, dependency,
                  patch_record_with_fixed_deps(dependency, parts))
         ELSE patch
    ELSE collect_proposed_change(patch, filename, dependency_type, dependency,
             dependency \o " <2.0a0")

\* update_numpy_dependencies of generate_numpy2_patch.py from the dependency
\* at the head of rest on: NUMPY_2_CHANGES[subdir] as the call leaves it and
\* the exception it raises, "" when it returns
RECURSIVE update_numpy_dependencies(_, _, _, _)
update_numpy_dependencies(rest, dependency_type, filename, patch) ==
    IF rest = <<>> THEN [out |-> patch, exc |-> ""]
    ELSE LET dependency == Head(rest)
             parts == Split(dependency)
         IN IF parts = <<>> THEN [out |-> patch, exc |-> "IndexError"]
            ELSE update_numpy_dependencies(Tail(rest), dependency_type, filename,
                     IF Contains(parts[1], "numpy") /\ ~has_upper_bound(dependency)
                     THEN IF parts[1] \in DOMAIN numpy2_protect_dict
                          THEN _handle_protected_dependency(parts, dependency, filename,
                                                            dependency_type, patch)
                          ELSE _handle_unspecified_dependency(parts, dependency, filename,
                                                              dependency_type, patch)
                     ELSE patch)

\* collect_proposed_change of numpy2.py:
\* proposed_changes[subdirectory][filename].append({...})
numpy2_collect_proposed_change(proposed, change_type, original_dependency, updated_dependency, reason) ==
    Append(proposed, [type |-> change_type, original |-> original_dependency,
                      updated |-> updated_dependency, reason |-> reason])

\* what update_numpy_dependencies of numpy2.py does for one dependency on
\* numpy or numpy-base
numpy2_update_one(parts, dependency, dependency_type, config, proposed) ==
    IF has_upper_bound(dependency)
    THEN numpy2_collect_proposed_change(proposed, dependency_type, dependency, dependency,
             "Already has upper bound")
    ELSE IF parts[1] \in DOMAIN config.protect
    THEN LET version == IF Len(parts) > 1 THEN parse_version(parts[2]) ELSE None
             protected_version == parse_version(config.protect[parts[1]])
         IN IF version # None /\ protected_version # None
            THEN IF VersionOrderLe(version, protected_version)
                 THEN numpy2_collect_proposed_change(proposed, dependency_type, dependency,
                          IF Len(parts) > 1 THEN dependency \o ",<2.0a0"
                          ELSE dependency \o " <2.0a0",
                          "Version <= protected_version")
                 ELSE proposed
            ELSE numpy2_collect_proposed_change(proposed, dependency_type, dependency,
                     dependency, "Missing version or protected_version")
    ELSE IF config.add_bound_to_unspecified
    THEN IF Len(parts) > 1
         THEN IF patch_record_with_fixed_deps(dependency, parts) # dependency
              THEN numpy2_collect_proposed_change(proposed, dependency_type, dependency,
                       patch_record_with_fixed_deps(dependency, parts), "Upper bound added")
              ELSE numpy2_collect_proposed_change(proposed, dependency_type, dependency,
                       dependency, "No unspecified bound")
         ELSE numpy2_collect_proposed_change(proposed, dependency_type, dependency,
                  dependency \o " <2.0a0", "Upper bound added")
    ELSE numpy2_collect_proposed_change(proposed, dependency_type, dependency, dependency,
             "Not in protect_dict, no unspecified bound")

\* update_numpy_dependencies of numpy2.py from the dependency at the head of
\* rest on: proposed_changes[subdir][filename] as the call leaves it and the
\* exception it raises
RECURSIVE numpy2_update_numpy_dependencies(_, _, _, _)
numpy2_update_numpy_dependencies(rest, dependency_type, config, proposed) ==
    IF rest = <<>> THEN [out |-> proposed, exc |-> ""]
    ELSE LET dependency == Head(rest)
             parts == Split(dependency)
         IN IF parts = <<>> THEN [out |-> proposed, exc |-> "IndexError"]
            ELSE numpy2_update_numpy_dependencies(Tail(rest), dependency_type, config,
                     IF parts[1] \in {"numpy", "numpy-base"}
                     THEN numpy2_update_one(parts, dependency, dependency_type, config,
                                            proposed)
                     ELSE proposed)

\* the loop "for dep in lst: if dep.split()[0] in ['numpy', 'numpy-base']:
\* update_numpy_dependencies(lst, ...)" of main from the element at the head
\* of rest on; gen tells the script, acc is [out, exc] so far
RECURSIVE for_each_numpy(_, _, _, _, _, _, _)
for_each_numpy(gen, rest, lst, dependency_type, filename, config, acc) ==
    IF rest = <<>> \/ acc.exc # "" THEN acc
    ELSE IF Split(Head(rest)) = <<>> THEN [acc EXCEPT !.exc = "IndexError"]
    ELSE for_each_numpy(gen, Tail(rest), lst, dependency_type, filename, config,
             IF Split(Head(rest))[1] \in {"numpy", "numpy-base"}
             THEN IF gen
                  THEN update_numpy_dependencies(lst, dependency_type, filename, acc.out)
                  ELSE numpy2_update_numpy_dependencies(lst, dependency_type, config,
                                                        acc.out)
             ELSE acc)

\* the record is one the loop of main examines: a build for python 3.9 to
\* 3.12 that is not an anaconda metapackage
examined(fn, record) ==
    /\ \E py_ver \in {"py39", "py310", "py311", "py312"} : Contains(fn, py_ver)
    /\ record.name \notin {"anaconda", "_anaconda_depends", "__anaconda_core_depends",
                           "_anaconda_core"}

\* record.get("constrains", [])
constrains_of(record) ==
    IF "constrains" \in DOMAIN record THEN record.constrains ELSE <<>>

\* the body of the loop over index.items() in main of
\* generate_numpy2_patch.py: NUMPY_2_CHANGES[subdir] as it leaves it; an
\* exception ends the try block and is logged
generate_numpy2_patch_main(fn, record, patch) ==
    LET depends == SelectSeq(record.depends, LAMBDA dep : dep # None)
        constrains == constrains_of(record)
    IN IF examined(fn, record)
       THEN for_each_numpy(TRUE, constrains, constrains, "const", fn, <<>>,
                for_each_numpy(TRUE, depends, depends, "dep", fn, <<>>,
                               [out |-> patch, exc |-> ""])).out
       ELSE patch

\* the body of the loop over index.items() in main of numpy2.py:
\* proposed_changes[subdir][fn] as it leaves it
numpy2_main(fn, record, config, proposed) ==
    LET depends == SelectSeq(record.depends, LAMBDA dep : dep # None)
        constrains == constrains_of(record)
    IN IF examined(fn, record)
       THEN for_each_numpy(FALSE, constrains, constrains, "constr", fn, config,
                for_each_numpy(FALSE, depends, depends, "dep", fn, config,
                               [out |-> proposed, exc |-> ""])).out
       ELSE proposed

\* dependencies of the records the generators examine
NumpyDeps ==
    {"numpy >=1.21,<2.0a0", "numpy >=1.21.5", "numpy", "numpy-base 1.23.5 py39h31eccc5_0",
     "python >=3.9,<3.10.0a0"}

\* constraints of the records the generators examine
NumpyConstrains == {"numpy >=1.21.5", "numpy-base >=1.21,<2.0a0", "pandas >=1.0"}

\* the files of the records the generators examine
NumpyFileNames ==
    {"scipy-1.10.1-py39h14f4228_0.tar.bz2", "scipy-1.10.1-py38h14f4228_0.tar.bz2",
     "anaconda-2023.07-py311_0.tar.bz2"}

\* the records file fn may hold
NumpyRecords(fn) ==
    LET name == Split(split_on(fn, "-", "", <<>>)[1])[1]
        base == {[name |-> name, version |-> "1.10.1", build |-> "py39h14f4228_0",
                  build_number |-> 0, depends |-> d] :
                    d \in SeqsUpTo(NumpyDeps, MaxNumpyDeps)}
    IN base \cup {With(r, "constrains", c) :
                     r \in base, c \in SeqsUpTo(NumpyConstrains, 1)}

\* numpy2_config is not part of the sources: the values numpy2.py may import
\* as numpy2_protect_dict, with the key add_bound_to_unspecified held apart
Numpy2Configs ==
    {[protect |-> numpy2_protect_dict, add_bound_to_unspecified |-> FALSE],
     [protect |-> numpy2_protect_dict, add_bound_to_unspecified |-> TRUE],
     [protect |-> ("numpy" :> "1.22.0") @@ numpy2_protect_dict,
      add_bound_to_unspecified |-> TRUE]}

\* both generators about to examine a record of the index of a platform
InitNumpy2 ==
    /\ IdleReplaceDep /\ IdlePatch /\ IdleHotfixes /\ IdleRename /\ IdlePackageTypes
    /\ np_fn \in NumpyFileNames
    /\ np_record \in NumpyRecords(np_fn)
    /\ np_config \in Numpy2Configs
    /\ np_patch = <<>>
    /\ np_proposed = <<>>
    /\ np_ran = {}

\* main of generate_numpy2_patch.py examines the record
GenerateNumpy2Patch ==
    /\ np_fn # ""
    /\ "generate_numpy2_patch.py" \notin np_ran
    /\ np_patch' = generate_numpy2_patch_main(np_fn, np_record, np_patch)
    /\ np_ran' = np_ran \cup {"generate_numpy2_patch.py"}
    /\ UNCHANGED <<np_fn, np_record, np_config, np_proposed>>
    /\ UNCHANGED <<rdvars, prvars, hfvars, rnvars, ptvars>>

\* main of numpy2.py examines the record
Numpy2 ==
    /\ np_fn # ""
    /\ "numpy2.py" \notin np_ran
    /\ np_proposed' = numpy2_main(np_fn, np_record, np_config, np_proposed)
    /\ np_ran' = np_ran \cup {"numpy2.py"}
    /\ UNCHANGED <<np_fn, np_record, np_config, np_patch>>
    /\ UNCHANGED <<rdvars, prvars, hfvars, rnvars, ptvars>>

NextNumpy2 == GenerateNumpy2Patch \/ Numpy2

SpecNumpy2 == InitNumpy2 /\ [][NextNumpy2]_vars

-----------------------------------------------------------------------------
(* Properties of the numpy 2 generators, checked under SpecNumpy2 *)

\* the type of a change entry names a list of the record that holds the
\* dependency the entry is about
TypeNamesList(change) ==
    \/ change.type = "dep" /\ In(change.original, np_record.depends)
    \/ change.type = "constr" /\ In(change.original, constrains_of(np_record))

\* C24: every change entry emitted by the numpy-2 patch generators has type
\* 'dep' when it comes from a record's depends list and 'constr' when it
\* comes from its constrains list; no other type value is ever written to
\* the output JSON.
C24_ChangeTypesClaim ==
    /\ \A fn \in DOMAIN np_patch : TypeNamesList(np_patch[fn])
    /\ \A i \in 1..Len(np_proposed) : TypeNamesList(np_proposed[i])

====
